---------------------------- MODULE Spec2Model ----------------------------
(***************************************************************************)
(* A model of libralm-reader: the storage engine (indexed book content,    *)
(* annotations, library catalog, reading positions), the library scan, the *)
(* RSS ingestion engine, the progressive chapter reader and the EPUB       *)
(* structural engine.  Each subsystem has its own specification over the   *)
(* shared variables; the variables of the other subsystems stay idle.      *)
(***************************************************************************)
EXTENDS Integers, Sequences, FiniteSets, TLC

VARIABLES
    \* ---- storage: book_content table (src/src/storage/index.ts) ----
    book_content,       \* committed rows of table book_content
    book_content_fts,   \* committed rows of the FTS table
    txn,                \* the open transaction of indexBookContent, or NoTxn
    nextId,             \* how many ids generateId() has handed out
    \* ---- library catalog and session (library.json, session.json) ----
    dir,                \* the books directory: path -> file content, or None
    library,            \* library.books: sequence of catalog entries
    session,            \* session.json: [lastBook, positions]
    clock,              \* the wall clock read by new Date()
    lastCall,           \* the last tool call: its arguments and what it returned
    scansSinceChange,   \* consecutive viewLibrary runs since anything else ran
    libraryAfterFirst,  \* the catalog as the first of those runs left it
    \* ---- RSS feeds and articles ----
    upstream,           \* url -> the item list the feed's server answers with
    feeds,              \* rows of the feeds table
    articles,           \* rows of the articles table
    nextUuid,           \* how many random UUIDs the RSS engine has drawn
    rssCall,            \* the last RSS operation
    refreshesSinceChange, \* refreshFeed runs since the upstream last changed
    \* ---- annotations: highlights, notes, bookmarks tables ----
    highlights,
    notes,
    bookmarks,
    annNextId,          \* ids handed out to annotations
    annCall,            \* the last annotation call and the id it returned
    \* ---- progressive chapter read (readChapter) ----
    chapterLength,      \* length of the chapter's extracted text
    readLimit,          \* the limit argument of the reading loop, if any
    readOffset,         \* the offset argument of the next call, if any
    readSlices,         \* the slices returned so far, as [from, to) ranges
    readDone,           \* the last call returned hasMore = false
    \* ---- EPUB structural engine (openEpub) ----
    epubFile,           \* the package at the file path: [flow, toc, spine]
    epubCache,          \* the cache entry of the file, if any
    \* ---- calls of functions that keep no state ----
    callArgs,           \* the arguments of the call
    callResult,         \* what the call returned, once it has returned
    \* ---- storage: semantic_index table ----
    semantic_index,     \* rows of table semantic_index
    semTick,            \* calls made so far: the clock and the source of fresh ids
    semCall,            \* the last call on the table
    \* ---- document caches of the EPUB and PDF engines, and their sweep timer ----
    docCache,           \* per file path, the entry's lastAccess, if cached
    cacheNow,           \* Date.now(), in minutes
    lastSweep,          \* when the sweep timer last ran
    bookCache,          \* per book id, the extracted text's extractedAt, if cached
    bookReturned,       \* the last getExtractedBook call: when, and what it returned
    \* ---- concurrent openEpub / openPdf calls on one path ----
    raceFile,           \* the document at the path
    raceCache,          \* the cache entry of the path, if any
    racePc,             \* where each call stands
    raceResult,         \* what each call returned, once it has returned
    \* ---- the document handles of the PDF engine ----
    pdfDocuments,       \* per handle getDocument has created, whether it is destroyed
    pdfCache,           \* the entry of pdfCache for the path: its document and lastAccess
    pdfPc,              \* per extractPdfText call, where it stands and the document it holds
    pdfNow,             \* Date.now(), in minutes
    pdfLastSweep,       \* when cleanCache last ran
    \* ---- the reader UI's highlights beside the server's ----
    uiHighlights,       \* ids of state.highlights in the UI
    serverHighlights,   \* ids of the highlights in server storage
    uiCalls,            \* callServerTool calls awaiting their result
    uiClock             \* source of the temp ids and of the server's ids

indexVars == <<book_content, book_content_fts, txn, nextId>>
libVars == <<dir, library, session, clock, lastCall, scansSinceChange,
             libraryAfterFirst>>
rssVars == <<upstream, feeds, articles, nextUuid, rssCall, refreshesSinceChange>>
annVars == <<highlights, notes, bookmarks, annNextId, annCall>>
readVars == <<chapterLength, readLimit, readOffset, readSlices, readDone>>
epubVars == <<epubFile, epubCache>>
callVars == <<callArgs, callResult>>
semVars == <<semantic_index, semTick, semCall>>
cacheVars == <<docCache, cacheNow, lastSweep, bookCache, bookReturned>>
raceVars == <<raceFile, raceCache, racePc, raceResult>>
pdfVars == <<pdfDocuments, pdfCache, pdfPc, pdfNow, pdfLastSweep>>
uiVars == <<uiHighlights, serverHighlights, uiCalls, uiClock>>

vars == <<indexVars, libVars, rssVars, annVars, readVars, epubVars, callVars, semVars, cacheVars, raceVars, pdfVars, uiVars>>

nonIndexVars == <<libVars, rssVars, annVars, readVars, epubVars, callVars, semVars, cacheVars, raceVars, pdfVars, uiVars>>
nonLibVars == <<indexVars, rssVars, annVars, readVars, epubVars, callVars, semVars, cacheVars, raceVars, pdfVars, uiVars>>
nonRssVars == <<indexVars, libVars, annVars, readVars, epubVars, callVars, semVars, cacheVars, raceVars, pdfVars, uiVars>>
nonAnnVars == <<indexVars, libVars, rssVars, readVars, epubVars, callVars, semVars, cacheVars, raceVars, pdfVars, uiVars>>
nonReadVars == <<indexVars, libVars, rssVars, annVars, epubVars, callVars, semVars, cacheVars, raceVars, pdfVars, uiVars>>
nonEpubVars == <<indexVars, libVars, rssVars, annVars, readVars, callVars, semVars, cacheVars, raceVars, pdfVars, uiVars>>
nonCallVars == <<indexVars, libVars, rssVars, annVars, readVars, epubVars, semVars, cacheVars, raceVars, pdfVars, uiVars>>
nonSemVars == <<indexVars, libVars, rssVars, annVars, readVars, epubVars, callVars, cacheVars, raceVars, pdfVars, uiVars>>
nonCacheVars == <<indexVars, libVars, rssVars, annVars, readVars, epubVars, callVars, semVars, raceVars, pdfVars, uiVars>>
nonRaceVars == <<indexVars, libVars, rssVars, annVars, readVars, epubVars, callVars, semVars, cacheVars, pdfVars, uiVars>>
nonPdfVars == <<indexVars, libVars, rssVars, annVars, readVars, epubVars, callVars, semVars, cacheVars, raceVars, uiVars>>
nonUiVars == <<indexVars, libVars, rssVars, annVars, readVars, epubVars, callVars, semVars, cacheVars, raceVars, pdfVars>>

(***************************************************************************)
(* Bounds of the model.                                                    *)
(***************************************************************************)
MaxChapters == 2        \* chapters per indexBookContent call
MaxIds == 5             \* ids generateId() may hand out in one behaviour

\* The value of an absent optional (undefined / null).
None == "none"

\* An absent optional number is the empty sequence, a present one is <<n>>.
NoNumber == <<>>

\* The value of an absent optional whose present values are records.
Absent == [absent |-> TRUE]

NoCall == [op |-> "none"]

\* The library and session files as Storage.initialize writes them.
IdleLibrary ==
    /\ dir = [p \in {"p1", "p2"} |-> None]
    /\ library = <<>>
    /\ session = [lastBook |-> None, positions |-> [b \in {"id1", "id2"} |-> Absent]]
    /\ clock = 0
    /\ lastCall = NoCall
    /\ scansSinceChange = 0
    /\ libraryAfterFirst = <<>>

IdleRss ==
    /\ upstream = [u \in {"u1"} |-> <<>>]
    /\ feeds = {}
    /\ articles = {}
    /\ nextUuid = 0
    /\ rssCall = NoCall
    /\ refreshesSinceChange = 0

IdleAnnotations ==
    /\ highlights = {}
    /\ notes = {}
    /\ bookmarks = {}
    /\ annNextId = 0
    /\ annCall = NoCall

IdleRead ==
    /\ chapterLength = 0
    /\ readLimit = NoNumber
    /\ readOffset = NoNumber
    /\ readSlices = <<>>
    /\ readDone = FALSE

IdleEpub ==
    /\ epubFile = [flow |-> <<>>, toc |-> <<>>, spine |-> <<>>]
    /\ epubCache = Absent

IdleCalls ==
    /\ callArgs = NoCall
    /\ callResult = NoCall

IdleSem ==
    /\ semantic_index = {}
    /\ semTick = 0
    /\ semCall = NoCall

IdleRace ==
    /\ raceFile = Absent
    /\ raceCache = Absent
    /\ racePc = <<>>
    /\ raceResult = <<>>

IdleUi ==
    /\ uiHighlights = {}
    /\ serverHighlights = {}
    /\ uiCalls = {}
    /\ uiClock = 1

IdlePdf ==
    /\ pdfDocuments = <<>>
    /\ pdfCache = Absent
    /\ pdfPc = <<>>
    /\ pdfNow = 0
    /\ pdfLastSweep = 0

IdleCache ==
    /\ docCache = [p \in {"a.epub", "b.pdf"} |-> NoNumber]
    /\ cacheNow = 0
    /\ lastSweep = 0
    /\ bookCache = [b \in {"1"} |-> NoNumber]
    /\ bookReturned = Absent

\* Set of all sequences over S of length at most n.
SeqUpTo(S, n) == UNION {[1..k -> S] : k \in 0..n}

(***************************************************************************)
(* Storage: indexed book content.                                          *)
(***************************************************************************)
BookIds == {"b1", "b2"}
ContentHashes == {"h1", "h2"}

NoTxn == [active |-> FALSE]

\* Storage.generateId: crypto.randomUUID(), a value never handed out before.
generateId == nextId + 1

\* A faulty deleteBookContent that clears the FTS rows of the book only and
\* leaves the rows of the main table in place.
deleteBookContent_ftsOnly(db, bookId) ==
    LET contentIds == {r.id : r \in {x \in db.content : x.bookId = bookId}}
    IN [content |-> db.content,
        fts |-> {f \in db.fts : f.content_id \notin contentIds}]

\* Storage.deleteBookContent on a database state db = [content, fts]: the FTS
\* rows of the book's content ids, then every main-table row of the book.
deleteBookContent(db, bookId) ==
    LET contentIds == {r.id : r \in {x \in db.content : x.bookId = bookId}}
    IN [content |-> {r \in db.content : r.bookId # bookId},
        fts |-> {f \in db.fts : f.content_id \notin contentIds}]

\* The two INSERT statements of one loop iteration of indexBookContent.
insertChapter(db, id, bookId, chapterIndex, contentHash, indexedAt) ==
    [content |-> db.content \cup {[id |-> id, bookId |-> bookId,
                                   chapterIndex |-> chapterIndex,
                                   contentHash |-> contentHash,
                                   indexedAt |-> indexedAt]},
     fts |-> db.fts \cup {[content_id |-> id, book_id |-> bookId]}]

Committed == [content |-> book_content, fts |-> book_content_fts]

\* indexBookContent: the transaction begins and its first statement, the
\* delete of the book's existing rows, runs on the transaction's own view.
IndexBegin(bookId, chapters, contentHash) ==
    /\ ~txn.active
    /\ txn' = [active |-> TRUE, bookId |-> bookId, contentHash |-> contentHash,
               todo |-> chapters, indexedAt |-> nextId,
               db |-> deleteBookContent(Committed, bookId)]
    /\ UNCHANGED <<book_content, book_content_fts, nextId>>
    /\ UNCHANGED nonIndexVars

\* One iteration of the insert loop, inside the transaction.
IndexInsert ==
    /\ txn.active
    /\ txn.todo # <<>>
    /\ nextId < MaxIds
    /\ nextId' = generateId
    /\ txn' = [txn EXCEPT !.todo = Tail(@),
                          !.db = insertChapter(@, generateId, txn.bookId,
                                               Head(txn.todo), txn.contentHash,
                                               txn.indexedAt)]
    /\ UNCHANGED <<book_content, book_content_fts>>
    /\ UNCHANGED nonIndexVars

\* A statement of the transaction throws: better-sqlite3 rolls back.
IndexFail ==
    /\ txn.active
    /\ txn' = NoTxn
    /\ UNCHANGED <<book_content, book_content_fts, nextId>>
    /\ UNCHANGED nonIndexVars

\* The transaction function returns: commit.
IndexCommit ==
    /\ txn.active
    /\ txn.todo = <<>>
    /\ book_content' = txn.db.content
    /\ book_content_fts' = txn.db.fts
    /\ txn' = NoTxn
    /\ UNCHANGED nextId
    /\ UNCHANGED nonIndexVars

\* A direct call of Storage.deleteBookContent, outside any transaction.
DeleteBookContent(bookId) ==
    /\ ~txn.active
    /\ book_content' = deleteBookContent(Committed, bookId).content
    /\ book_content_fts' = deleteBookContent(Committed, bookId).fts
    /\ UNCHANGED <<txn, nextId>>
    /\ UNCHANGED nonIndexVars

IdleIndex ==
    /\ book_content = {}
    /\ book_content_fts = {}
    /\ txn = NoTxn
    /\ nextId = 0

InitIndex ==
    /\ IdleIndex
    /\ IdleLibrary /\ IdleRss /\ IdleAnnotations /\ IdleRead /\ IdleEpub /\ IdleCalls /\ IdleSem /\ IdleCache /\ IdleRace /\ IdlePdf /\ IdleUi

NextIndex ==
    \/ \E b \in BookIds, h \in ContentHashes, n \in 0..MaxChapters :
          IndexBegin(b, [i \in 1..n |-> i - 1], h)
    \/ IndexInsert
    \/ IndexFail
    \/ IndexCommit
    \/ \E b \in BookIds : DeleteBookContent(b)

SpecIndex == InitIndex /\ [][NextIndex]_vars

\* C1: in every state a reader can observe, all book_content rows of one book
\* carry one and the same contentHash (and the FTS table mirrors the content
\* table), also across re-indexing and re-indexing that fails part-way.
C1_OneHashPerBook ==
    /\ \A r1, r2 \in book_content :
          r1.bookId = r2.bookId => r1.contentHash = r2.contentHash
    /\ {f.content_id : f \in book_content_fts} = {r.id : r \in book_content}

\* A book indexed under h1 has been re-indexed under h2 with two chapters.
C1_Witness ==
    /\ ~txn.active
    /\ Cardinality({r \in book_content : r.bookId = "b1" /\ r.contentHash = "h2"}) = 2
    /\ \E id \in 1..nextId : id \notin {r.id : r \in book_content}
    /\ nextId >= 3

(***************************************************************************)
(* Library catalog: viewLibrary (the scan), loadBookTool, savePosition.    *)
(***************************************************************************)
MaxClock == 2           \* readings of the wall clock tell 0..MaxClock apart

Paths == {"p1", "p2"}
\* fs.readdirSync order of the files of the books directory.
PathOrder == <<"p1", "p2">>
Contents == {"c1", "c2"}

\* Storage.hashBook: the first 16 hex digits of the SHA-256 of the file bytes;
\* distinct contents of the model have distinct digests.
hashBook(content) == IF content = "c1" THEN "id1" ELSE "id2"
LibraryIds == {hashBook(c) : c \in Contents}

\* The title the package metadata of a file carries, if any.
MetadataTitle(content) == IF content = "c1" THEN "T1" ELSE None
\* pages.length / pageCount of the opened book.
ChapterCount(content) == IF content = "c1" THEN 3 ELSE 1

\* scanDirectory: one ScannedBook per book file, in directory order; the title
\* is metadata.title || path.basename(file).
RECURSIVE scanFrom(_, _)
scanFrom(d, i) ==
    IF i > Len(PathOrder) THEN <<>>
    ELSE LET p == PathOrder[i]
         IN IF d[p] = None THEN scanFrom(d, i + 1)
            ELSE <<[path |-> p, content |-> d[p],
                    title |-> IF MetadataTitle(d[p]) # None
                              THEN MetadataTitle(d[p]) ELSE p]>>
                 \o scanFrom(d, i + 1)
scanDirectory(d) == scanFrom(d, 1)

\* library.books.find((b) => b.id === bookId): the index of the first entry
\* with that id, or 0 when there is none.
findById(books, bookId) ==
    IF \E i \in 1..Len(books) : books[i].id = bookId
    THEN CHOOSE i \in 1..Len(books) :
            books[i].id = bookId /\ \A j \in 1..(i - 1) : books[j].id # bookId
    ELSE 0

\* The add/update loop of viewLibrary over the scanned books from the i-th on.
RECURSIVE addOrUpdateScanned(_, _, _, _)
addOrUpdateScanned(books, scanned, i, now) ==
    IF i > Len(scanned) THEN books
    ELSE LET s == scanned[i]
             bookId == hashBook(s.content)
             k == findById(books, bookId)
             updated == IF k > 0
                        THEN [books EXCEPT ![k].title = s.title]
                        ELSE Append(books, [id |-> bookId, path |-> s.path,
                                            title |-> s.title, addedAt |-> now,
                                            lastRead |-> None,
                                            chapterCount |-> None])
         IN addOrUpdateScanned(updated, scanned, i + 1, now)

\* "Remove books that no longer exist": keep the entries whose path was scanned.
removeVanished(books, scanned) ==
    SelectSeq(books, LAMBDA b : \E i \in 1..Len(scanned) : scanned[i].path = b.path)

\* viewLibrary: the catalog it saves.
viewLibrary(books, d, now) ==
    removeVanished(addOrUpdateScanned(books, scanDirectory(d), 1, now),
                   scanDirectory(d))

\* The user's files change between tool calls: a file is written, replaced or
\* deleted (a move is a delete and a write).
ChangeFile(p, c) ==
    /\ dir[p] # c
    /\ dir' = [dir EXCEPT ![p] = c]
    /\ scansSinceChange' = 0
    /\ lastCall' = NoCall
    /\ UNCHANGED <<library, session, clock, libraryAfterFirst>>
    /\ UNCHANGED nonLibVars

\* Time passes.
Tick ==
    /\ clock < MaxClock
    /\ clock' = clock + 1
    /\ UNCHANGED <<dir, library, session, lastCall, scansSinceChange,
                   libraryAfterFirst>>
    /\ UNCHANGED nonLibVars

ViewLibrary ==
    /\ library' = viewLibrary(library, dir, clock)
    /\ scansSinceChange' = IF scansSinceChange < 2 THEN scansSinceChange + 1 ELSE 2
    /\ libraryAfterFirst' = IF scansSinceChange = 0 THEN library'
                            ELSE libraryAfterFirst
    /\ lastCall' = [op |-> "viewLibrary"]
    /\ UNCHANGED <<dir, session, clock>>
    /\ UNCHANGED nonLibVars

\* The range check of loadBookTool on the stored position.
positionOutOfRange(position, chapterCount) ==
    position # Absent /\ position.chapterIndex >= chapterCount

\* loadBookTool on an existing file (hashBook throws on a missing one, before
\* anything is written).
LoadBookTool(p) ==
    /\ dir[p] # None
    /\ LET bookId == hashBook(dir[p])
           chapterCount == ChapterCount(dir[p])
           stored == session.positions[bookId]
           repair == positionOutOfRange(stored, chapterCount)
           lastPosition == IF repair
                           THEN [chapterIndex |-> 0, scrollPosition |-> 0,
                                 lastRead |-> stored.lastRead]
                           ELSE stored
           k == findById(library, bookId)
       IN /\ session' = [lastBook |-> bookId,
                         positions |-> IF repair
                                       THEN [session.positions EXCEPT ![bookId] = lastPosition]
                                       ELSE session.positions]
          /\ library' = IF k > 0
                        THEN [library EXCEPT ![k].lastRead = clock,
                                             ![k].chapterCount = chapterCount]
                        ELSE library
          /\ lastCall' = [op |-> "loadBook", bookId |-> bookId,
                          chapterCount |-> chapterCount, stored |-> stored,
                          lastPosition |-> lastPosition]
    /\ scansSinceChange' = 0
    /\ UNCHANGED <<dir, clock, libraryAfterFirst>>
    /\ UNCHANGED nonLibVars

\* savePosition as the save_position tool registers it: any bookId string, any
\* number as chapterIndex and as scrollPosition.
SavePosition(bookId, chapterIndex, scrollPosition) ==
    /\ session' = [lastBook |-> bookId,
                   positions |-> [session.positions EXCEPT ![bookId] =
                                     [chapterIndex |-> chapterIndex,
                                      scrollPosition |-> scrollPosition,
                                      lastRead |-> clock]]]
    /\ LET k == findById(library, bookId)
       IN library' = IF k > 0 THEN [library EXCEPT ![k].lastRead = clock]
                     ELSE library
    /\ lastCall' = [op |-> "savePosition", bookId |-> bookId]
    /\ scansSinceChange' = 0
    /\ UNCHANGED <<dir, clock, libraryAfterFirst>>
    /\ UNCHANGED nonLibVars

InitLibrary ==
    /\ IdleLibrary
    /\ IdleIndex /\ IdleRss /\ IdleAnnotations /\ IdleRead /\ IdleEpub /\ IdleCalls /\ IdleSem /\ IdleCache /\ IdleRace /\ IdlePdf /\ IdleUi

NextLibrary ==
    \/ \E p \in Paths, c \in Contents \cup {None} : ChangeFile(p, c)
    \/ Tick
    \/ ViewLibrary
    \/ \E p \in Paths : LoadBookTool(p)

SpecLibrary == InitLibrary /\ [][NextLibrary]_vars

\* C2: a second scan of an unchanged directory leaves the catalog as the first
\* scan left it.
C2_ScanIdempotent ==
    scansSinceChange = 2 => library = libraryAfterFirst

\* C3: after a scan the catalog has exactly one entry per book file path of
\* the directory.
C3_OneEntryPerPath ==
    lastCall.op = "viewLibrary" =>
        /\ {library[i].path : i \in 1..Len(library)} = {p \in Paths : dir[p] # None}
        /\ \A i, j \in 1..Len(library) : library[i].path = library[j].path => i = j

(***************************************************************************)
(* Reading positions: save_position and load_book on a library whose files *)
(* do not change.  The calls of this specification all read the same clock *)
(* value: a position is told from another by its chapterIndex and its      *)
(* scrollPosition.                                                         *)
(***************************************************************************)
\* Arguments the save_position tool is called with.
ChapterIndexInputs == {-1, 0, 2, 3}
ScrollInputs == {0, 1, 2}

InitPosition ==
    /\ dir = [p \in Paths |-> IF p = "p1" THEN "c1" ELSE "c2"]
    /\ library = <<>>
    /\ session = [lastBook |-> None, positions |-> [b \in LibraryIds |-> Absent]]
    /\ clock = 0
    /\ lastCall = NoCall
    /\ scansSinceChange = 0
    /\ libraryAfterFirst = <<>>
    /\ IdleIndex /\ IdleRss /\ IdleAnnotations /\ IdleRead /\ IdleEpub /\ IdleCalls /\ IdleSem /\ IdleCache /\ IdleRace /\ IdlePdf /\ IdleUi

NextPosition ==
    \/ ViewLibrary
    \/ \E p \in Paths : LoadBookTool(p)
    \/ \E b \in LibraryIds, ci \in ChapterIndexInputs, sp \in ScrollInputs :
          SavePosition(b, ci, sp)

SpecPosition == InitPosition /\ [][NextPosition]_vars

\* C9: loadBook answers, and leaves persisted, chapter 0 whenever the stored
\* chapterIndex is not a valid index of the book (0 <= chapterIndex <
\* chapterCount); a stored position that is in range is returned as it is and
\* is not rewritten.
C9_RepairsOutOfRange ==
    (lastCall.op = "loadBook" /\ lastCall.stored # Absent) =>
        IF 0 <= lastCall.stored.chapterIndex
              /\ lastCall.stored.chapterIndex < lastCall.chapterCount
        THEN /\ lastCall.lastPosition = lastCall.stored
             /\ session.positions[lastCall.bookId] = lastCall.stored
        ELSE /\ lastCall.lastPosition.chapterIndex = 0
             /\ session.positions[lastCall.bookId].chapterIndex = 0

\* C22: whatever numbers save_position and load_book are called with, no stored
\* reading position has a scrollPosition below 0 or above 1.
C22_ScrollPositionInRange ==
    \A b \in DOMAIN session.positions :
        session.positions[b] # Absent =>
            /\ session.positions[b].scrollPosition >= 0
            /\ session.positions[b].scrollPosition <= 1

(***************************************************************************)
(* RSS ingestion: fetchFeed, subscribeFeed, refreshFeed and the read/saved *)
(* flags.  The feeds and articles tables live in the storage engine; their *)
(* rows carry the columns the operations below read or write.              *)
(***************************************************************************)
MaxUuids == 3           \* random UUIDs drawn in one behaviour

Urls == {"u1"}

\* The documents an upstream feed serves over time.  Their items: one with a
\* guid; one without guid or link, with a title; one with none of the three.
UpstreamDocs ==
    LET WithGuid == [guid |-> "g1", link |-> "l1", title |-> "t1"]
        TitleOnly == [guid |-> None, link |-> None, title |-> "t2"]
        Bare == [guid |-> None, link |-> None, title |-> None]
    IN {<<>>, <<WithGuid>>, <<Bare>>, <<WithGuid, TitleOnly>>,
        <<TitleOnly, WithGuid>>, <<WithGuid, Bare>>}

\* crypto.randomUUID(): the n-th UUID drawn.
randomUUID(n) == "uuid" \o ToString(n)

\* fetchFeed's item mapping from the k-th item on, n UUIDs drawn so far:
\* guid: item.guid || item.link || item.title || crypto.randomUUID(),
\* title: item.title || 'Untitled'.
RECURSIVE parseItems(_, _, _)
parseItems(items, k, n) ==
    IF k > Len(items) THEN <<>>
    ELSE LET item == items[k]
             random == item.guid = None /\ item.link = None /\ item.title = None
             guid == IF item.guid # None THEN item.guid
                     ELSE IF item.link # None THEN item.link
                     ELSE IF item.title # None THEN item.title
                     ELSE randomUUID(n + 1)
         IN <<[guid |-> guid,
               title |-> IF item.title # None THEN item.title ELSE "Untitled",
               link |-> item.link]>>
            \o parseItems(items, k + 1, IF random THEN n + 1 ELSE n)

\* The number of UUIDs fetchFeed draws for an item list.
randomDraws(items) ==
    Cardinality({k \in 1..Len(items) :
        items[k].guid = None /\ items[k].link = None /\ items[k].title = None})

\* storage.addArticles from the k-th article on: a row is inserted, unread and
\* unsaved, unless a row with its (feedId, guid) exists; an existing row is
\* left as it is.  A row's id is unique to its (feedId, guid) and is written
\* as that pair.
RECURSIVE addArticles(_, _, _)
addArticles(rows, toAdd, k) ==
    IF k > Len(toAdd) THEN rows
    ELSE LET a == toAdd[k]
             exists == \E r \in rows : r.feedId = a.feedId /\ r.guid = a.guid
         IN IF exists THEN addArticles(rows, toAdd, k + 1)
            ELSE addArticles(rows \cup {[id |-> <<a.feedId, a.guid>>,
                                         feedId |-> a.feedId, guid |-> a.guid,
                                         title |-> a.title,
                                         isRead |-> FALSE, isSaved |-> FALSE]},
                             toAdd, k + 1)

\* articlesToAdd of subscribeFeed and refreshFeed.
articlesToAdd(feedId, parsed) ==
    [k \in 1..Len(parsed) |-> [feedId |-> feedId, guid |-> parsed[k].guid,
                               title |-> parsed[k].title]]

\* A faulty refreshFeed that replaces the stored articles of the feed by the
\* fetched ones.
refreshFeed_replaceAll(rows, feedId, items, n) ==
    addArticles({r \in rows : r.feedId # feedId},
                articlesToAdd(feedId, parseItems(items, 1, n)), 1)

\* refreshFeed: the articles table after the fetched items were added.
refreshFeed(rows, feedId, items, n) ==
    addArticles(rows, articlesToAdd(feedId, parseItems(items, 1, n)), 1)

\* The feed's server serves another document.
SetUpstream(u, items) ==
    /\ upstream[u] # items
    /\ upstream' = [upstream EXCEPT ![u] = items]
    /\ refreshesSinceChange' = 0
    /\ rssCall' = NoCall
    /\ UNCHANGED <<feeds, articles, nextUuid>>
    /\ UNCHANGED nonRssVars

\* refreshFeed on a stored feed whose fetch succeeds (it throws, and changes
\* nothing, for an unknown feed id or a failed fetch).
RefreshFeed(feed, op) ==
    /\ feed \in feeds
    /\ nextUuid + randomDraws(upstream[feed.url]) <= MaxUuids
    /\ articles' = refreshFeed(articles, feed.id, upstream[feed.url], nextUuid)
    /\ nextUuid' = nextUuid + randomDraws(upstream[feed.url])
    /\ rssCall' = [op |-> op, feedId |-> feed.id]
    /\ refreshesSinceChange' = 1
    /\ UNCHANGED <<upstream, feeds>>
    /\ UNCHANGED nonRssVars

\* storage.getFeedByUrl: the feed row of the URL, if there is one.
getFeedByUrl(rows, url) ==
    IF \E f \in rows : f.url = url
    THEN CHOOSE f \in rows : f.url = url
    ELSE Absent

\* a variant that does not look for a feed of the URL first
SubscribeFeed_alwaysNew(u) ==
    /\ nextUuid + randomDraws(upstream[u]) + 1 <= MaxUuids
    /\ LET n == nextUuid + randomDraws(upstream[u]) + 1
           feedId == randomUUID(n)
       IN /\ feeds' = feeds \cup {[id |-> feedId, url |-> u]}
          /\ articles' = addArticles(articles,
                            articlesToAdd(feedId, parseItems(upstream[u], 1, nextUuid)),
                            1)
          /\ nextUuid' = n
          /\ rssCall' = [op |-> "subscribeNew", feedId |-> feedId]
    /\ refreshesSinceChange' = 0
    /\ UNCHANGED upstream
    /\ UNCHANGED nonRssVars

\* subscribeFeed: an already subscribed URL is refreshed instead; a new URL
\* is fetched (bypassing the cache), its feed row added and its items stored.
SubscribeFeed(u) ==
    LET existing == getFeedByUrl(feeds, u)
    IN \/ existing # Absent /\ RefreshFeed(existing, "subscribeFeed")
       \/ /\ existing = Absent
          /\ nextUuid + randomDraws(upstream[u]) + 1 <= MaxUuids
          /\ LET n == nextUuid + randomDraws(upstream[u]) + 1
                 feedId == randomUUID(n)
             IN /\ feeds' = feeds \cup {[id |-> feedId, url |-> u]}
                /\ articles' = addArticles(articles,
                                  articlesToAdd(feedId,
                                                parseItems(upstream[u], 1, nextUuid)),
                                  1)
                /\ nextUuid' = n
                /\ rssCall' = [op |-> "subscribeNew", feedId |-> feedId]
          /\ refreshesSinceChange' = 0
          /\ UNCHANGED upstream
          /\ UNCHANGED nonRssVars

\* unsubscribeFeed: storage.deleteFeed removes the feed row and, with it, the
\* feed's articles (rows left behind would carry a feed id that no later
\* feed has).
UnsubscribeFeed(feedId) ==
    /\ \E f \in feeds : f.id = feedId
    /\ feeds' = {f \in feeds : f.id # feedId}
    /\ articles' = {a \in articles : a.feedId # feedId}
    /\ rssCall' = [op |-> "unsubscribeFeed", feedId |-> feedId]
    /\ refreshesSinceChange' = 0
    /\ UNCHANGED <<upstream, nextUuid>>
    /\ UNCHANGED nonRssVars

\* markRead(articleId, isRead).
MarkRead(articleId, isRead) ==
    /\ \E a \in articles : a.id = articleId /\ a.isRead # isRead
    /\ articles' = {IF a.id = articleId THEN [a EXCEPT !.isRead = isRead] ELSE a :
                    a \in articles}
    /\ rssCall' = [op |-> "markRead"]
    /\ UNCHANGED <<upstream, feeds, nextUuid, refreshesSinceChange>>
    /\ UNCHANGED nonRssVars

\* toggleSaved(articleId).
ToggleSaved(articleId) ==
    /\ \E a \in articles : a.id = articleId
    /\ articles' = {IF a.id = articleId THEN [a EXCEPT !.isSaved = ~a.isSaved] ELSE a :
                    a \in articles}
    /\ rssCall' = [op |-> "toggleSaved"]
    /\ UNCHANGED <<upstream, feeds, nextUuid, refreshesSinceChange>>
    /\ UNCHANGED nonRssVars

InitRss ==
    /\ IdleRss
    /\ IdleIndex /\ IdleLibrary /\ IdleAnnotations /\ IdleRead /\ IdleEpub /\ IdleCalls /\ IdleSem /\ IdleCache /\ IdleRace /\ IdlePdf /\ IdleUi

NextRss ==
    \/ \E u \in Urls, items \in UpstreamDocs : SetUpstream(u, items)
    \/ \E f \in feeds : RefreshFeed(f, "refreshFeed")
    \/ \E u \in Urls : SubscribeFeed(u)
    \/ \E f \in feeds : UnsubscribeFeed(f.id)
    \/ \E a \in articles, r \in BOOLEAN : MarkRead(a.id, r)
    \/ \E a \in articles : ToggleSaved(a.id)

SpecRss == InitRss /\ [][NextRss]_vars

\* A refresh of a feed, by refreshFeed or by subscribeFeed on its URL.
RefreshStep ==
    \E f \in feeds : RefreshFeed(f, "refreshFeed") \/ RefreshFeed(f, "subscribeFeed")

\* C4: a refresh that follows a refresh of the feed, the upstream content
\* unchanged in between, stores no new article: the articles are the same
\* after it as before it.
C4_RefreshIdempotent ==
    [][(refreshesSinceChange = 1 /\ RefreshStep) => articles' = articles]_vars

\* C5: a refresh (refreshFeed, or subscribeFeed on a subscribed URL) leaves
\* every article stored before it in place with its isRead and isSaved flags.
C5_FlagsSurviveRefresh ==
    [][RefreshStep =>
          \A a \in articles :
              \E b \in articles' : /\ b.id = a.id
                                   /\ b.isRead = a.isRead
                                   /\ b.isSaved = a.isSaved]_vars

\* A refresh served again the item of an article that was read and saved
\* before it, and stored a new article beside it.
C5_Witness ==
    /\ rssCall.op = "refreshFeed"
    /\ \E a \in articles :
          /\ a.isRead /\ a.isSaved
          /\ \E k \in 1..Len(upstream["u1"]) : upstream["u1"][k].guid = a.guid
    /\ \E a \in articles : ~a.isRead /\ ~a.isSaved /\ a.guid = "t2"
    /\ Len(upstream["u1"]) = 2

\* C18: after any sequence of subscribeFeed and unsubscribeFeed calls there is
\* at most one stored feed per URL, and subscribeFeed on a subscribed URL
\* refreshes the existing feed and returns it, under its id, without storing
\* a second feed.
C18_SubscribeIdempotent ==
    /\ [](\A f1, f2 \in feeds : f1.url = f2.url => f1 = f2)
    /\ [][\A u \in Urls :
             (getFeedByUrl(feeds, u) # Absent /\ SubscribeFeed(u)) =>
                 /\ feeds' = feeds
                 /\ rssCall' = [op |-> "subscribeFeed",
                                feedId |-> getFeedByUrl(feeds, u).id]
                 /\ articles' = refreshFeed(articles, getFeedByUrl(feeds, u).id,
                                            upstream[u], nextUuid)]_vars

\* subscribeFeed was called on the URL of a feed that was subscribed again
\* after an unsubscribe and holds an article
C18_Witness ==
    /\ rssCall.op = "subscribeFeed"
    /\ feeds = {[id |-> rssCall.feedId, url |-> "u1"]}
    /\ rssCall.feedId = randomUUID(2)
    /\ \E a \in articles : a.feedId = rssCall.feedId /\ a.guid = "g1"

(***************************************************************************)
(* Annotations: the add_highlight, add_note, add_bookmark and              *)
(* delete_annotation tools over the highlights, notes and bookmarks        *)
(* tables of the storage engine.                                           *)
(***************************************************************************)
MaxAnnotations == 2     \* annotations created in one behaviour

\* What callers (the assistant, the reader UI) pass to add_highlight: the UI
\* passes cfiRange for an EPUB and pageNumber for a PDF.
HighlightArgs ==
    [bookId : {"b1", "b2", None}, chapterIndex : {<<4>>, NoNumber}, text : {"x"},
     color : {None, "green"}, cfiRange : {None, "cfi1"},
     pageNumber : {NoNumber, <<5>>}]

NoteArgs ==
    [bookId : {"b1", None}, chapterIndex : {<<4>>, NoNumber}, text : {"n"},
     quote : {"q"}, cfiRange : {None, "cfi1"}, pageNumber : {NoNumber, <<5>>}]

BookmarkArgs ==
    [bookId : {"b1"}, chapterIndex : {<<4>>}, title : {None, "t"},
     cfiRange : {None, "cfi1"}, pageNumber : {NoNumber, <<5>>}]

\* value || null for an optional number: 0 and undefined both give null.
numberOrNull(n) == IF n # NoNumber /\ n[1] # 0 THEN n ELSE NoNumber

\* Storage.addHighlight: the row inserted for a highlight.
addHighlight(highlight, id, createdAt) ==
    [id |-> id, bookId |-> highlight.bookId, chapterIndex |-> highlight.chapterIndex,
     text |-> highlight.text,
     color |-> IF highlight.color # None THEN highlight.color ELSE "yellow",
     cfiRange |-> highlight.cfiRange,
     pageNumber |-> numberOrNull(highlight.pageNumber),
     createdAt |-> createdAt]

\* Storage.addNote.
addNote(note, id, createdAt) ==
    [id |-> id, bookId |-> note.bookId, chapterIndex |-> note.chapterIndex,
     text |-> note.text, quote |-> note.quote, cfiRange |-> note.cfiRange,
     pageNumber |-> numberOrNull(note.pageNumber), createdAt |-> createdAt]

\* Storage.addBookmark.
addBookmark(bookmark, id, createdAt) ==
    [id |-> id, bookId |-> bookmark.bookId, chapterIndex |-> bookmark.chapterIndex,
     title |-> bookmark.title, cfiRange |-> bookmark.cfiRange,
     pageNumber |-> numberOrNull(bookmark.pageNumber), createdAt |-> createdAt]

\* Storage.getHighlights, getNotes, getBookmarks: the rows of the book (as a
\* set: the order of the list plays no part below).
getHighlights(rows, bookId) == {r \in rows : r.bookId = bookId}
getNotes(rows, bookId) == {r \in rows : r.bookId = bookId}
getBookmarks(rows, bookId) == {r \in rows : r.bookId = bookId}

\* A faulty deleteHighlight that deletes every highlight of the book the
\* highlight belongs to.
deleteHighlight_wholeBook(rows, id) ==
    {r \in rows : \A d \in rows : d.id = id => r.bookId # d.bookId}

\* Storage.deleteHighlight, deleteNote, deleteBookmark: DELETE ... WHERE id = ?
deleteHighlight(rows, id) == {r \in rows : r.id # id}
deleteNote(rows, id) == {r \in rows : r.id # id}
deleteBookmark(rows, id) == {r \in rows : r.id # id}

\* The add_highlight tool.  Its schema has no pageNumber, so the argument is
\* stripped; the tool throws without a book or a chapter, and hands
\* storage.addHighlight the bookId, chapterIndex, text, color and cfiRange.
AddHighlight(args) ==
    /\ annNextId < MaxAnnotations
    /\ IF args.bookId = None \/ args.chapterIndex = NoNumber
       THEN /\ annCall' = [op |-> "add", type |-> "highlight", id |-> 0, error |-> TRUE]
            /\ UNCHANGED <<highlights, annNextId>>
       ELSE LET id == annNextId + 1
                highlight == [bookId |-> args.bookId,
                              chapterIndex |-> args.chapterIndex[1],
                              text |-> args.text,
                              color |-> IF args.color # None THEN args.color
                                        ELSE "yellow",
                              cfiRange |-> args.cfiRange,
                              pageNumber |-> NoNumber]
            IN /\ highlights' = highlights \cup {addHighlight(highlight, id, clock)}
               /\ annNextId' = id
               /\ annCall' = [op |-> "add", type |-> "highlight", id |-> id,
                              error |-> FALSE]
    /\ UNCHANGED <<notes, bookmarks>>
    /\ UNCHANGED nonAnnVars

\* The add_note tool.
AddNote(args) ==
    /\ annNextId < MaxAnnotations
    /\ IF args.bookId = None \/ args.chapterIndex = NoNumber
       THEN /\ annCall' = [op |-> "add", type |-> "note", id |-> 0, error |-> TRUE]
            /\ UNCHANGED <<notes, annNextId>>
       ELSE LET id == annNextId + 1
                note == [bookId |-> args.bookId,
                         chapterIndex |-> args.chapterIndex[1],
                         text |-> args.text, quote |-> args.quote,
                         cfiRange |-> args.cfiRange, pageNumber |-> NoNumber]
            IN /\ notes' = notes \cup {addNote(note, id, clock)}
               /\ annNextId' = id
               /\ annCall' = [op |-> "add", type |-> "note", id |-> id,
                              error |-> FALSE]
    /\ UNCHANGED <<highlights, bookmarks>>
    /\ UNCHANGED nonAnnVars

\* The add_bookmark tool.
AddBookmark(args) ==
    /\ annNextId < MaxAnnotations
    /\ LET id == annNextId + 1
           bookmark == [bookId |-> args.bookId, chapterIndex |-> args.chapterIndex[1],
                        title |-> args.title, cfiRange |-> args.cfiRange,
                        pageNumber |-> NoNumber]
       IN /\ bookmarks' = bookmarks \cup {addBookmark(bookmark, id, clock)}
          /\ annNextId' = id
          /\ annCall' = [op |-> "add", type |-> "bookmark", id |-> id, error |-> FALSE]
    /\ UNCHANGED <<highlights, notes>>
    /\ UNCHANGED nonAnnVars

\* The delete_annotation tool.
DeleteAnnotation(id, type) ==
    /\ highlights' = IF type = "highlight" THEN deleteHighlight(highlights, id)
                     ELSE highlights
    /\ notes' = IF type = "note" THEN deleteNote(notes, id) ELSE notes
    /\ bookmarks' = IF type = "bookmark" THEN deleteBookmark(bookmarks, id)
                    ELSE bookmarks
    /\ annCall' = [op |-> "delete", type |-> type, id |-> id, error |-> FALSE]
    /\ UNCHANGED annNextId
    /\ UNCHANGED nonAnnVars

InitAnnotations ==
    /\ IdleAnnotations
    /\ IdleIndex /\ IdleLibrary /\ IdleRss /\ IdleRead /\ IdleEpub /\ IdleCalls /\ IdleSem /\ IdleCache /\ IdleRace /\ IdlePdf /\ IdleUi

NextAnnotations ==
    \/ \E args \in HighlightArgs : AddHighlight(args)
    \/ \E args \in NoteArgs : AddNote(args)
    \/ \E args \in BookmarkArgs : AddBookmark(args)
    \/ \E id \in 1..MaxAnnotations, type \in {"highlight", "note", "bookmark"} :
          DeleteAnnotation(id, type)

SpecAnnotations == InitAnnotations /\ [][NextAnnotations]_vars

\* The records of a list that carry the id.
Listed(list, id) == {r \in list : r.id = id}

\* C6: after an add the list of the book holds exactly one record with the
\* returned id, with the text, color and chapterIndex given and a creation
\* timestamp; after a delete the list no longer holds the id and every other
\* highlight, note and bookmark is unchanged.  Likewise for notes and
\* bookmarks.
C6_AnnotationRoundTrip ==
    [][/\ \A args \in HighlightArgs :
            (AddHighlight(args) /\ ~annCall'.error) =>
                LET listed == Listed(getHighlights(highlights', args.bookId), annCall'.id)
                IN /\ Cardinality(listed) = 1
                   /\ \A r \in listed :
                        /\ r.text = args.text
                        /\ r.chapterIndex = args.chapterIndex[1]
                        /\ args.color # None => r.color = args.color
                        /\ r.createdAt \in Nat
       /\ \A args \in NoteArgs :
            (AddNote(args) /\ ~annCall'.error) =>
                LET listed == Listed(getNotes(notes', args.bookId), annCall'.id)
                IN /\ Cardinality(listed) = 1
                   /\ \A r \in listed :
                        /\ r.text = args.text
                        /\ r.chapterIndex = args.chapterIndex[1]
                        /\ r.createdAt \in Nat
       /\ \A args \in BookmarkArgs :
            AddBookmark(args) =>
                LET listed == Listed(getBookmarks(bookmarks', args.bookId), annCall'.id)
                IN /\ Cardinality(listed) = 1
                   /\ \A r \in listed :
                        /\ r.title = args.title
                        /\ r.chapterIndex = args.chapterIndex[1]
                        /\ r.createdAt \in Nat
       /\ \A id \in 1..MaxAnnotations :
            /\ DeleteAnnotation(id, "highlight") =>
                 /\ \A b \in BookIds : Listed(getHighlights(highlights', b), id) = {}
                 /\ highlights' = {r \in highlights : r.id # id}
                 /\ notes' = notes /\ bookmarks' = bookmarks
            /\ DeleteAnnotation(id, "note") =>
                 /\ \A b \in BookIds : Listed(getNotes(notes', b), id) = {}
                 /\ notes' = {r \in notes : r.id # id}
                 /\ highlights' = highlights /\ bookmarks' = bookmarks
            /\ DeleteAnnotation(id, "bookmark") =>
                 /\ \A b \in BookIds : Listed(getBookmarks(bookmarks', b), id) = {}
                 /\ bookmarks' = {r \in bookmarks : r.id # id}
                 /\ highlights' = highlights /\ notes' = notes
      ]_vars

\* Two highlights of one book were added and the first was deleted: the
\* second is still listed.
C6_Witness ==
    /\ annCall = [op |-> "delete", type |-> "highlight", id |-> 1, error |-> FALSE]
    /\ annNextId = 2
    /\ Listed(getHighlights(highlights, "b1"), 1) = {}
    /\ Listed(getHighlights(highlights, "b1"), 2) # {}

\* C7: an annotation added through add_highlight, add_note or add_bookmark
\* with a cfiRange or a pageNumber is listed with that cfiRange or
\* pageNumber.
C7_LocationStored ==
    [][/\ \A args \in HighlightArgs :
            (AddHighlight(args) /\ ~annCall'.error) =>
                \A r \in Listed(getHighlights(highlights', args.bookId), annCall'.id) :
                    /\ args.cfiRange # None => r.cfiRange = args.cfiRange
                    /\ args.pageNumber # NoNumber => r.pageNumber = args.pageNumber
       /\ \A args \in NoteArgs :
            (AddNote(args) /\ ~annCall'.error) =>
                \A r \in Listed(getNotes(notes', args.bookId), annCall'.id) :
                    /\ args.cfiRange # None => r.cfiRange = args.cfiRange
                    /\ args.pageNumber # NoNumber => r.pageNumber = args.pageNumber
       /\ \A args \in BookmarkArgs :
            AddBookmark(args) =>
                \A r \in Listed(getBookmarks(bookmarks', args.bookId), annCall'.id) :
                    /\ args.cfiRange # None => r.cfiRange = args.cfiRange
                    /\ args.pageNumber # NoNumber => r.pageNumber = args.pageNumber
      ]_vars

(***************************************************************************)
(* Progressive chapter read: readChapter called at offset 0 and then at    *)
(* each nextOffset until hasMore is false.  The chapter text is a string   *)
(* of chapterLength characters; a slice of it is the range [from, to) of   *)
(* character positions it covers.                                          *)
(***************************************************************************)
LargeChapter == 50000   \* totalLength > 50000: chunked reading by default
DefaultChunk == 30000   \* the default limit of a large chapter
MinLimit == 1000        \* ReadChapterSchema: limit min(1000)
MaxLimit == 50000       \* ReadChapterSchema: limit max(50000)

\* Lengths of the extracted chapter text.
ChapterLengths == {0, 999, 1000, 30000, 50000, 50001, 70000, 120000}

\* The limit argument: absent, or a number the schema accepts.
Limits == {NoNumber} \cup {<<n>> : n \in {MinLimit, 29999, DefaultChunk, MaxLimit}}

Min(a, b) == IF a < b THEN a ELSE b

\* String.prototype.slice(start, end) on a string of the given length, for
\* start, end >= 0: the range of positions it returns.
slice(length, start, end) ==
    LET from == Min(start, length)
        to == Min(end, length)
    IN IF from < to THEN [from |-> from, to |-> to] ELSE [from |-> from, to |-> from]

\* A faulty readChapter whose nextOffset is one past the end of the slice.
readChapter_skipOne(totalLength, offsetArg, limitArg) ==
    LET offset == IF offsetArg # NoNumber THEN offsetArg[1] ELSE 0
        defaultLimit == IF totalLength > LargeChapter THEN DefaultChunk ELSE totalLength
        limit == IF limitArg # NoNumber THEN limitArg[1] ELSE defaultLimit
        contentSlice == slice(totalLength, offset, offset + limit)
        endOffset == offset + (contentSlice.to - contentSlice.from)
        hasMore == endOffset < totalLength
    IN [content |-> contentSlice, hasMore |-> hasMore,
        nextOffset |-> IF hasMore THEN <<endOffset + 1>> ELSE NoNumber]

\* readChapter on a chapter that is found: the slice, hasMore and nextOffset
\* of its structuredContent.
readChapter(totalLength, offsetArg, limitArg) ==
    LET offset == IF offsetArg # NoNumber THEN offsetArg[1] ELSE 0
        defaultLimit == IF totalLength > LargeChapter THEN DefaultChunk ELSE totalLength
        limit == IF limitArg # NoNumber THEN limitArg[1] ELSE defaultLimit
        contentSlice == slice(totalLength, offset, offset + limit)
        endOffset == offset + (contentSlice.to - contentSlice.from)
        hasMore == endOffset < totalLength
    IN [content |-> contentSlice, hasMore |-> hasMore,
        nextOffset |-> IF hasMore THEN <<endOffset>> ELSE NoNumber]

\* One call of the reading loop: the first call gives no offset, each later
\* call gives the nextOffset of the call before it.
ReadChapter ==
    /\ ~readDone
    /\ LET result == readChapter(chapterLength, readOffset, readLimit)
       IN /\ readSlices' = Append(readSlices, result.content)
          /\ readOffset' = result.nextOffset
          /\ readDone' = ~result.hasMore
    /\ UNCHANGED <<chapterLength, readLimit>>
    /\ UNCHANGED nonReadVars

InitRead ==
    /\ chapterLength \in ChapterLengths
    /\ readLimit \in Limits
    /\ readOffset = NoNumber
    /\ readSlices = <<>>
    /\ readDone = FALSE
    /\ IdleIndex /\ IdleLibrary /\ IdleRss /\ IdleAnnotations /\ IdleEpub /\ IdleCalls /\ IdleSem /\ IdleCache /\ IdleRace /\ IdlePdf /\ IdleUi

NextRead == ReadChapter

\* The caller keeps calling while hasMore is true.
SpecRead == InitRead /\ [][NextRead]_vars /\ WF_vars(NextRead)

\* The slices returned so far follow one another from position 0 with no
\* gap and no overlap; once hasMore is false they end at the chapter's end;
\* without a limit the first slice is the whole chapter up to 50,000
\* characters and the first 30,000 characters beyond.
SlicesTileChapter ==
    /\ \A k \in 1..Len(readSlices) :
         /\ readSlices[k].from = IF k = 1 THEN 0 ELSE readSlices[k - 1].to
         /\ readSlices[k].from <= readSlices[k].to
         /\ readSlices[k].to <= chapterLength
    /\ readDone => readSlices[Len(readSlices)].to = chapterLength
    /\ (readLimit = NoNumber /\ Len(readSlices) >= 1) =>
         readSlices[1].to = IF chapterLength <= 50000 THEN chapterLength ELSE 30000

MaxToc == 3             \* entries of a package's TOC

\* The packages opened: a flow of zero to two documents (spine.contents is
\* the flow), with a TOC of entries that name a document as written, name it
\* up to normalization, name no document, or have no href.
EpubFiles ==
    LET F1 == [id |-> "f1", href |-> <<"OEBPS", "ch1.html">>, title |-> None]
        F2 == [id |-> "f2", href |-> <<"OEBPS", "text", "ch2.html">>, title |-> None]
        F3 == [id |-> "f3", href |-> <<"ch1.html">>, title |-> "S"]
        Flows == {<<>>, <<F1>>, <<F1, F2>>, <<F3, F1>>}
        TocItems ==
            {[href |-> << <<"OEBPS", "ch1.html">>, "s1" >>, title |-> "A",
              order |-> NoNumber],
             [href |-> << <<"ch1.html">>, "s2" >>, title |-> None, order |-> <<1>>],
             [href |-> << <<"OEBPS", "ch1.html">>, "s3" >>, title |-> "A3",
              order |-> <<1>>],
             [href |-> << <<"text", "ch2.html">> >>, title |-> "C", order |-> NoNumber],
             [href |-> << <<"ch1.html">> >>, title |-> "B", order |-> NoNumber],
             [href |-> << <<"missing.html">>, "s1" >>, title |-> "D",
              order |-> NoNumber],
             [href |-> <<>>, title |-> "E", order |-> <<1>>]}
    IN {[flow |-> flow, toc |-> toc, spine |-> flow] :
           flow \in Flows, toc \in SeqUpTo(TocItems, MaxToc)}

\* normalizeHref: href.replace(/^OEBPS\//, '') and so on, each dropping the
\* leading segment if it is the given directory.
normalizeHref(href) ==
    LET stripPrefix(h, directory) ==
            IF Len(h) >= 2 /\ h[1] = directory THEN Tail(h) ELSE h
    IN stripPrefix(stripPrefix(stripPrefix(stripPrefix(stripPrefix(href,
           "OEBPS"), "EPUB"), "OPS"), "xhtml"), "text")

\* Map.set and Map.get on a map held as a function; get gives None for a
\* missing key.
mapSet(map, key, value) ==
    [k \in DOMAIN map \cup {key} |-> IF k = key THEN value ELSE map[k]]
mapGet(map, key) == IF key \in DOMAIN map THEN map[key] ELSE None

\* hrefToFlowId after the first i flow items: each item is entered under its
\* href and under its normalized href, a later item replacing an earlier one.
RECURSIVE hrefToFlowId(_, _)
hrefToFlowId(flow, i) ==
    IF i = 0 THEN <<>>
    ELSE mapSet(mapSet(hrefToFlowId(flow, i - 1), flow[i].href, flow[i].id),
                normalizeHref(flow[i].href), flow[i].id)

\* hrefToTocTitle after the first i TOC entries: the first entry of a file
\* gives its title, under the file href and under its normalized form.
RECURSIVE hrefToTocTitle(_, _)
hrefToTocTitle(toc, i) ==
    IF i = 0 THEN <<>>
    ELSE LET map == hrefToTocTitle(toc, i - 1)
             tocItem == toc[i]
         IN IF tocItem.href # <<>> /\ tocItem.title # None
            THEN LET fileHref == tocItem.href[1]
                     m1 == IF fileHref \in DOMAIN map THEN map
                           ELSE mapSet(map, fileHref, tocItem.title)
                 IN IF normalizeHref(fileHref) \in DOMAIN m1 THEN m1
                    ELSE mapSet(m1, normalizeHref(fileHref), tocItem.title)
            ELSE map

\* [...toc].sort((a, b) => (a.order ?? 0) - (b.order ?? 0)): a stable sort of
\* the first i entries.
orderOf(tocItem) == IF tocItem.order # NoNumber THEN tocItem.order[1] ELSE 0
RECURSIVE sortedToc(_, _)
sortedToc(toc, i) ==
    IF i = 0 THEN <<>>
    ELSE LET before == sortedToc(toc, i - 1)
             keep == Cardinality({k \in 1..Len(before) :
                                     orderOf(before[k]) <= orderOf(toc[i])})
         IN SubSeq(before, 1, keep) \o <<toc[i]>> \o SubSeq(before, keep + 1, Len(before))

\* A faulty trigger that also takes a TOC of as many entries as the flow.
useAnchorBasedPages_atLeast(file) ==
    /\ Len(file.toc) >= Len(file.flow)
    /\ \E k \in 1..Len(file.toc) : Len(file.toc[k].href) > 1

\* tocHasAnchors and toc.length > flow.length.
useAnchorBasedPages(file) ==
    /\ Len(file.toc) > Len(file.flow)
    /\ \E k \in 1..Len(file.toc) : Len(file.toc[k].href) > 1

\* The anchor-based branch over the sorted TOC from its k-th entry on, the
\* pages pushed so far given: an entry without href, or whose file href is in
\* the map neither as written nor normalized, is skipped.
RECURSIVE anchorPages(_, _, _, _)
anchorPages(sorted, k, map, pages) ==
    IF k > Len(sorted) THEN pages
    ELSE LET tocItem == sorted[k]
         IN IF tocItem.href = <<>> THEN anchorPages(sorted, k + 1, map, pages)
            ELSE LET fileHref == tocItem.href[1]
                     anchor == IF Len(tocItem.href) > 1 THEN tocItem.href[2] ELSE None
                     flowId == IF mapGet(map, fileHref) # None
                               THEN mapGet(map, fileHref)
                               ELSE mapGet(map, normalizeHref(fileHref))
                 IN IF flowId = None THEN anchorPages(sorted, k + 1, map, pages)
                    ELSE anchorPages(sorted, k + 1, map,
                           Append(pages,
                                  [title |-> IF tocItem.title # None THEN tocItem.title
                                             ELSE "Page " \o ToString(Len(pages) + 1),
                                   flowId |-> flowId, href |-> fileHref,
                                   anchor |-> anchor]))

\* A faulty flow-based branch that makes pages of the spine items the TOC
\* gives a title only.
flowPages_titledOnly(spine, titles) ==
    LET titled == SelectSeq(spine, LAMBDA item :
                      \/ mapGet(titles, item.href) # None
                      \/ mapGet(titles, normalizeHref(item.href)) # None)
    IN [i \in 1..Len(titled) |->
           [title |-> "Page " \o ToString(i), flowId |-> titled[i].id,
            href |-> titled[i].href, anchor |-> None]]

\* The flow-based branch: one page per spine item, titled by the spine item,
\* by the TOC or by its position.
flowPages(spine, titles) ==
    [i \in 1..Len(spine) |->
        [title |-> IF spine[i].title # None
                   THEN spine[i].title
                   ELSE IF mapGet(titles, spine[i].href) # None
                   THEN mapGet(titles, spine[i].href)
                   ELSE IF mapGet(titles, normalizeHref(spine[i].href)) # None
                   THEN mapGet(titles, normalizeHref(spine[i].href))
                   ELSE "Page " \o ToString(i),
         flowId |-> spine[i].id, href |-> spine[i].href, anchor |-> None]]

\* pages.findIndex of a TOC entry, 0 when no page matches.
findPageIndex(pages, tocItem, anchorBased) ==
    LET fileHref == tocItem.href[1]
        anchor == IF Len(tocItem.href) > 1 THEN tocItem.href[2] ELSE None
        matching == {i \in 1..Len(pages) :
                        IF anchorBased
                        THEN pages[i].href = fileHref /\ pages[i].anchor = anchor
                        ELSE \/ pages[i].href = fileHref
                             \/ normalizeHref(pages[i].href) = normalizeHref(fileHref)}
    IN IF matching = {} THEN 0 ELSE CHOOSE i \in matching : \A j \in matching : i <= j

\* The sidebar entries over the sorted TOC from its k-th entry on.
RECURSIVE tocEntries(_, _, _, _, _)
tocEntries(sorted, k, pages, anchorBased, entries) ==
    IF k > Len(sorted) THEN entries
    ELSE LET tocItem == sorted[k]
             pageIndex == IF tocItem.href = <<>> THEN 0
                          ELSE findPageIndex(pages, tocItem, anchorBased)
         IN IF pageIndex = 0 THEN tocEntries(sorted, k + 1, pages, anchorBased, entries)
            ELSE tocEntries(sorted, k + 1, pages, anchorBased,
                   Append(entries,
                          [title |-> IF tocItem.title # None THEN tocItem.title
                                     ELSE "Section " \o ToString(Len(entries) + 1),
                           index |-> pageIndex - 1, href |-> tocItem.href]))

\* openEpub on a file that is not cached: the cache entry it builds.
openEpub(file) ==
    LET anchorBased == useAnchorBasedPages(file)
        sorted == sortedToc(file.toc, Len(file.toc))
        pages == IF anchorBased
                 THEN anchorPages(sorted, 1, hrefToFlowId(file.flow, Len(file.flow)), <<>>)
                 ELSE flowPages(file.spine, hrefToTocTitle(file.toc, Len(file.toc)))
    IN [anchorBased |-> anchorBased, pages |-> pages,
        tocEntries |-> tocEntries(sorted, 1, pages, anchorBased, <<>>)]

\* openEpub(filePath): a cached entry is returned as it is; otherwise the
\* package on disk is parsed and its entry cached.
OpenEpub ==
    /\ epubCache' = IF epubCache # Absent THEN epubCache ELSE openEpub(epubFile)
    /\ UNCHANGED epubFile
    /\ UNCHANGED nonEpubVars

\* cleanCache: the entry is evicted once it has not been used for CACHE_TTL.
CleanCache ==
    /\ epubCache # Absent
    /\ epubCache' = Absent
    /\ UNCHANGED epubFile
    /\ UNCHANGED nonEpubVars

InitEpub ==
    /\ epubFile \in EpubFiles
    /\ epubCache = Absent
    /\ IdleIndex /\ IdleLibrary /\ IdleRss /\ IdleAnnotations /\ IdleRead /\ IdleCalls /\ IdleSem /\ IdleCache /\ IdleRace /\ IdlePdf /\ IdleUi

NextEpub ==
    \/ OpenEpub
    \/ CleanCache

SpecEpub == InitEpub /\ [][NextEpub]_vars

\* The pagination mode of the cached package is anchor-based exactly when
\* its TOC has strictly more entries than its flow and some TOC href
\* contains '#'.
AnchorModeTrigger ==
    epubCache.anchorBased <=>
        /\ Len(epubFile.toc) > Len(epubFile.flow)
        /\ \E k \in 1..Len(epubFile.toc) : Len(epubFile.toc[k].href) > 1

\* The flow documents a file href designates: those whose href equals it as
\* written or after normalization of either.
Designated(flow, fileHref) ==
    {flow[i].id : i \in {j \in 1..Len(flow) :
                            \/ flow[j].href = fileHref
                            \/ normalizeHref(flow[j].href) = fileHref
                            \/ flow[j].href = normalizeHref(fileHref)
                            \/ normalizeHref(flow[j].href) = normalizeHref(fileHref)}}

\* Chapter k is the given TOC entry: its file href, its anchor and a flow
\* document the file href designates.
IsChapterOf(page, tocItem, flow) ==
    /\ tocItem.href # <<>>
    /\ page.href = tocItem.href[1]
    /\ page.anchor = IF Len(tocItem.href) > 1 THEN tocItem.href[2] ELSE None
    /\ page.flowId \in Designated(flow, tocItem.href[1])

\* The TOC in TOC order: by the order field, entries of equal order as listed.
InTocOrder(toc) ==
    LET orders == {orderOf(toc[k]) : k \in 1..Len(toc)}
        upTo(o) == SelectSeq(toc, LAMBDA t : orderOf(t) = o)
        F[S \in SUBSET orders] ==
            IF S = {} THEN <<>>
            ELSE LET o == CHOOSE x \in S : \A y \in S : x >= y
                 IN F[S \ {o}] \o upTo(o)
    IN F[orders]

Resolvable(toc, flow) ==
    SelectSeq(InTocOrder(toc),
              LAMBDA t : t.href # <<>> /\ Designated(flow, t.href[1]) # {})

C11_FlowModeFallback ==
    (/\ epubCache # Absent
     /\ \/ \A k \in 1..Len(epubFile.toc) : Len(epubFile.toc[k].href) <= 1
        \/ Len(epubFile.toc) <= Len(epubFile.flow)) =>
        /\ Len(epubCache.pages) = Len(epubFile.flow)
        /\ \A i \in 1..Len(epubFile.flow) :
             /\ epubCache.pages[i].flowId = epubFile.flow[i].id
             /\ epubCache.pages[i].href = epubFile.flow[i].href

\* C26: in flow mode a chapter is titled by its spine item's title if there is
\* one, else by the first TOC entry, in TOC order, that has a title and whose
\* file href is the spine document's up to the packaging-root prefixes, else
\* 'Page N' with N its position in the spine.
C26_FlowTitlePriority ==
    (epubCache # Absent /\ ~epubCache.anchorBased) =>
        \A i \in 1..Len(epubFile.spine) :
            LET item == epubFile.spine[i]
                naming == {k \in 1..Len(epubFile.toc) :
                              /\ epubFile.toc[k].href # <<>>
                              /\ epubFile.toc[k].title # None
                              /\ normalizeHref(epubFile.toc[k].href[1])
                                     = normalizeHref(item.href)}
                first == CHOOSE k \in naming : \A j \in naming : k <= j
            IN epubCache.pages[i].title =
                   IF item.title # None THEN item.title
                   ELSE IF naming # {} THEN epubFile.toc[first].title
                   ELSE "Page " \o ToString(i)

\* A package whose three TOC entries, none with an anchor, outnumber its two
\* flow documents was opened: two chapters.
C11_Witness ==
    /\ epubCache # Absent
    /\ Len(epubFile.toc) = 3
    /\ Len(epubFile.flow) = 2
    /\ \A k \in 1..3 : Len(epubFile.toc[k].href) <= 1
    /\ \E k \in 1..3 : Len(epubFile.toc[k].href) = 1
    /\ Len(epubCache.pages) = 2

(***************************************************************************)
(* Text extraction: deduplicateChapterContent.  A chapter's text is a      *)
(* preamble the chapters share, then text of its own that differs from     *)
(* every other chapter's at both ends, then a trailer the chapters share;  *)
(* the last chapter may have a lead of its own before the preamble, and    *)
(* may have no text of its own.  The chapter is held as the lengths of its *)
(* parts, and a piece of its text as the range [from, to) of positions it  *)
(* covers.                                                                 *)
(***************************************************************************)
MaxDedupChapters == 5   \* chapters handed to deduplicateChapterContent

DedupInputs ==
    {chapters \in
        {[k \in 1..n |->
             [index |-> k - 1,
              lead |-> IF k = n /\ k > 1 THEN l ELSE 0,
              preamble |-> p,
              unique |-> IF k = n /\ k > 1 /\ bare THEN 0 ELSE u,
              trailer |-> t]] :
            n \in 1..MaxDedupChapters, p \in {0, 150, 210, 230, 480, 500, 2000},
            u \in {1, 730, 1500, 3000}, t \in {0, 300}, l \in {0, 40, 600},
            bare \in BOOLEAN} :
        \A k \in 1..Len(chapters) :
            chapters[k].lead + chapters[k].preamble + chapters[k].unique
                + chapters[k].trailer > 0}

contentLength(ch) == ch.lead + ch.preamble + ch.unique + ch.trailer

\* findCommonPrefix over the first 2000 characters of each chapter: the
\* lengths min(length of the first, 2000), 50 less, ... down to 100 are tried
\* in turn, and the first one at which at least minCount of the strings
\* start with that much of the first string is the result; 0 for ''.
findCommonPrefix(chapters, minCount) ==
    LET first == Min(contentLength(chapters[1]), 2000)
        shared(k) == IF k = 1 THEN first
                     ELSE IF chapters[k].lead > 0 THEN 0
                     ELSE Min(chapters[k].preamble, 2000)
        tried == {len \in {first - 50 * j : j \in 0..40} : len >= 100}
        found == {len \in tried :
                     Cardinality({k \in 1..Len(chapters) : len <= shared(k)}) >= minCount}
    IN IF found = {} THEN 0 ELSE CHOOSE len \in found : \A l \in found : l <= len

\* findCommonSuffix over the last 1500 characters of each chapter, likewise.
findCommonSuffix(chapters, minCount) ==
    LET first == Min(contentLength(chapters[1]), 1500)
        shared(k) == IF k = 1 THEN first ELSE Min(chapters[k].trailer, 1500)
        tried == {len \in {first - 50 * j : j \in 0..30} : len >= 100}
        found == {len \in tried :
                     Cardinality({k \in 1..Len(chapters) : len <= shared(k)}) >= minCount}
    IN IF found = {} THEN 0 ELSE CHOOSE len \in found : \A l \in found : l <= len

\* deduplicateChapterContent: the range of each chapter's text that is left.
\* Fewer than 3 chapters are returned as they are.  Otherwise a common prefix
\* of more than 200 characters is cut where the chapter has it (after its
\* lead, if that is shorter than 500 characters), with what precedes it, and
\* a common suffix of more than 200 characters likewise; the final trim() takes
\* nothing, the parts having no white space at their ends.
deduplicateChapterContent(chapters) ==
    IF Len(chapters) < 3
    THEN [k \in 1..Len(chapters) |-> [from |-> 0, to |-> contentLength(chapters[k])]]
    ELSE LET minCount == (Len(chapters) + 1) \div 2
             commonPrefix == findCommonPrefix(chapters, minCount)
             commonSuffix == findCommonSuffix(chapters, minCount)
             hasPrefix(k) == commonPrefix <= (IF k = 1 THEN contentLength(chapters[1])
                                              ELSE chapters[k].preamble)
             prefixIndex(k) == chapters[k].lead
             from(k) == IF commonPrefix > 200 /\ hasPrefix(k) /\ prefixIndex(k) < 500
                        THEN prefixIndex(k) + commonPrefix ELSE 0
             hasSuffix(k) ==
                 /\ commonSuffix <= (IF k = 1 THEN contentLength(chapters[1])
                                     ELSE chapters[k].trailer)
                 /\ commonSuffix <= contentLength(chapters[k]) - from(k)
         IN [k \in 1..Len(chapters) |->
                [from |-> from(k),
                 to |-> IF commonSuffix > 200 /\ hasSuffix(k)
                        THEN contentLength(chapters[k]) - commonSuffix
                        ELSE contentLength(chapters[k])]]

\* extractBookText hands the extracted chapters to deduplicateChapterContent.
Deduplicate ==
    /\ callArgs.op = "dedup"
    /\ callResult = NoCall
    /\ callResult' = [op |-> "dedup",
                      chapters |-> deduplicateChapterContent(callArgs.chapters)]
    /\ UNCHANGED callArgs
    /\ UNCHANGED nonCallVars

\* C12: of at least 3 chapters that start with the same preamble of more than
\* 200 and at most 2000 characters and differ right after it, exactly the
\* preamble is removed from every chapter and the chapter's own text is left;
\* fewer than 3 chapters are returned unchanged.
C12_DedupStripsPreamble ==
    (callResult # NoCall /\ callArgs.op = "dedup") =>
        LET chapters == callArgs.chapters
            left == callResult.chapters
        IN /\ (/\ Len(chapters) >= 3
               /\ chapters[1].preamble > 200
               /\ chapters[1].preamble <= 2000
               /\ \A k \in 1..Len(chapters) :
                      chapters[k].lead = 0 /\ chapters[k].unique > 0) =>
                 \A k \in 1..Len(chapters) :
                    /\ left[k].from = chapters[k].preamble
                    /\ left[k].to >= chapters[k].preamble + chapters[k].unique
           /\ Len(chapters) < 3 =>
                 \A k \in 1..Len(chapters) :
                    left[k] = [from |-> 0, to |-> contentLength(chapters[k])]

\* C30: each chapter returned is its input without, at most, the common
\* prefix at its start and the common suffix at its end: nothing of the
\* chapter's own text is dropped, and what is returned is not empty.
C30_DedupRemovesOnlyBoilerplate ==
    (callResult # NoCall /\ callArgs.op = "dedup") =>
        \A k \in 1..Len(callArgs.chapters) :
            LET ch == callArgs.chapters[k]
                left == callResult.chapters[k]
            IN /\ left.from = 0 \/ (ch.lead = 0 /\ left.from <= ch.preamble)
               /\ left.to >= contentLength(ch) - ch.trailer
               /\ left.to > left.from

(***************************************************************************)
(* PDF page reading: the read_pdf_page tool over extractPdfPagesText.  The *)
(* text of page i of the document is held as the number i.                 *)
(***************************************************************************)
MaxPdfPages == 12       \* pages of a PDF document

\* The arguments of read_pdf_page and what findBook makes of the bookId: a
\* PDF of numPages pages, an EPUB, or no book.
PdfPageArgs ==
    [op : {"readPdfPage"}, book : {"pdf", "epub", None}, numPages : 1..MaxPdfPages,
     pageNumber : 1..(MaxPdfPages + 2), pageCount : {NoNumber} \cup {<<n>> : n \in 1..10}]

\* A faulty extractPdfPagesText whose last page is startPage + pageCount.
extractPdfPagesText_oneMore(numPages, startPage, pageCount) ==
    LET endPage == Min(startPage + pageCount, numPages)
    IN [pages |-> [k \in 1..(IF endPage >= startPage THEN endPage - startPage + 1 ELSE 0)
                      |-> [pageNumber |-> startPage + k - 1, text |-> startPage + k - 1]],
        totalPages |-> numPages]

\* extractPdfPagesText: the pages startPage .. min(startPage + pageCount - 1,
\* numPages), each with its number and its text.
extractPdfPagesText(numPages, startPage, pageCount) ==
    LET endPage == Min(startPage + pageCount - 1, numPages)
    IN [pages |-> [k \in 1..(IF endPage >= startPage THEN endPage - startPage + 1 ELSE 0)
                      |-> [pageNumber |-> startPage + k - 1, text |-> startPage + k - 1]],
        totalPages |-> numPages]

\* readPdfPage: descriptive results for an unknown book, a book that is no PDF
\* and a start page past the end (the text names the total); otherwise the
\* pages and the total as structured content.
ReadPdfPage ==
    /\ callArgs.op = "readPdfPage"
    /\ callResult = NoCall
    /\ callResult' =
         IF callArgs.book = None
         THEN [op |-> "readPdfPage", kind |-> "bookNotFound", threw |-> FALSE]
         ELSE IF callArgs.book # "pdf"
         THEN [op |-> "readPdfPage", kind |-> "notPdf", threw |-> FALSE]
         ELSE LET pageCount == IF callArgs.pageCount # NoNumber /\ callArgs.pageCount[1] # 0
                               THEN callArgs.pageCount[1] ELSE 1
                  result == extractPdfPagesText(callArgs.numPages, callArgs.pageNumber,
                                                pageCount)
              IN [op |-> "readPdfPage",
                  kind |-> IF Len(result.pages) = 0 THEN "noContent" ELSE "pages",
                  threw |-> FALSE,
                  pages |-> result.pages, totalPages |-> result.totalPages]
    /\ UNCHANGED callArgs
    /\ UNCHANGED nonCallVars

\* C13: for a PDF of N pages, reading n pages (1 <= n <= 10, 1 when none is
\* given) from page p >= 1 returns exactly the pages p, p+1, ...,
\* min(p+n-1, N) in that order, each with its own 1-based number, and the
\* total N whatever p and n are.
C13_PdfPageRange ==
    (callResult # NoCall /\ callArgs.op = "readPdfPage" /\ callArgs.book = "pdf") =>
        LET p == callArgs.pageNumber
            n == IF callArgs.pageCount = NoNumber THEN 1 ELSE callArgs.pageCount[1]
            N == callArgs.numPages
            last == IF p + n - 1 < N THEN p + n - 1 ELSE N
            wanted == {i \in 1..N : p <= i /\ i <= last}
        IN /\ callResult.totalPages = N
           /\ Len(callResult.pages) = Cardinality(wanted)
           /\ \A k \in 1..Len(callResult.pages) :
                /\ callResult.pages[k].pageNumber = p + k - 1
                /\ callResult.pages[k].text = p + k - 1
                /\ p + k - 1 \in wanted

\* Three pages were asked from page 11 of a 12-page PDF: pages 11 and 12.
C13_Witness ==
    /\ callResult # NoCall
    /\ callArgs.op = "readPdfPage" /\ callArgs.book = "pdf"
    /\ callArgs.numPages = 12 /\ callArgs.pageNumber = 11 /\ callArgs.pageCount = <<3>>
    /\ Len(callResult.pages) = 2

(***************************************************************************)
(* Book resolution: findBook.  Ids, titles and queries are strings held as *)
(* sequences of characters.                                                *)
(***************************************************************************)
MaxBooks == 2           \* books of the library findBook searches

\* The library (distinct books, in library order) and the query.
FindBookArgs ==
    LET Books == {[id |-> <<"1">>, title |-> <<"A", "b", "c", "-", "D", "e", "f">>],
                  [id |-> <<"2">>, title |-> <<"A", "b", "c", " ", "D", "e", "f", " ",
                                               "x", "y", "z">>],
                  [id |-> <<"3">>, title |-> <<"X", "y", "z">>]}
        Queries == {<<"1">>, <<"a", "b", "c", "-", "d", "e", "f">>,
                    <<"a", "b", "c", "_", "d", "e", "f">>,
                    <<"D", "e", "f">>, <<"d", "e", "f", " ", "x", "y", "z">>,
                    <<"x", "y">>, <<"q", "q">>, <<"q", "q", "q">>,
                    <<"a", " ", "x", "y", "z", " ", "q">>}
    IN {[op |-> "findBook", books |-> books, query |-> query] :
           books \in {b \in SeqUpTo(Books, MaxBooks) :
                         \A i, j \in 1..Len(b) : i # j => b[i] # b[j]},
           query \in Queries}

\* String.prototype.toLowerCase over the letters in use.
toLowerCase(s) ==
    [i \in 1..Len(s) |-> CASE s[i] = "A" -> "a" [] s[i] = "D" -> "d"
                           [] s[i] = "X" -> "x" [] OTHER -> s[i]]

\* String.prototype.includes.
includes(s, sub) ==
    \E i \in 1..(Len(s) + 1) :
        i + Len(sub) - 1 <= Len(s) /\ SubSeq(s, i, i + Len(sub) - 1) = sub

\* split(/\s+/).filter(w => w.length > 2): the runs of non-blank characters
\* longer than 2.
searchWords(s) ==
    {SubSeq(s, i, j) : <<i, j>> \in
        {r \in (1..Len(s)) \X (1..Len(s)) :
            /\ r[2] - r[1] + 1 > 2
            /\ \A k \in r[1]..r[2] : s[k] # " "
            /\ r[1] = 1 \/ s[r[1] - 1] = " "
            /\ r[2] = Len(s) \/ s[r[2] + 1] = " "}}

\* library.books.find(test): the first book of the list that is in the set,
\* Absent if there is none.
firstIn(books, matching) ==
    LET found == {i \in 1..Len(books) : books[i] \in matching}
    IN IF found = {} THEN Absent
       ELSE books[CHOOSE i \in found : \A j \in found : i <= j]

\* findBook: by id; else by lower-cased title equal to the lower-cased query
\* with '_' and '-' made blanks; else by title containing that query, or that
\* query containing the first 20 characters of the title; else by title
\* containing every word of the query longer than 2 characters.
findBook(books, bookIdOrTitle) ==
    LET all == {books[i] : i \in 1..Len(books)}
        searchLower == [i \in 1..Len(bookIdOrTitle) |->
                           IF toLowerCase(bookIdOrTitle)[i] \in {"_", "-"} THEN " "
                           ELSE toLowerCase(bookIdOrTitle)[i]]
        byId == firstIn(books, {b \in all : b.id = bookIdOrTitle})
        exactMatch == firstIn(books, {b \in all : toLowerCase(b.title) = searchLower})
        partialMatch ==
            firstIn(books, {b \in all :
                \/ includes(toLowerCase(b.title), searchLower)
                \/ includes(searchLower,
                            SubSeq(toLowerCase(b.title), 1, Min(20, Len(b.title))))})
        wordMatch ==
            firstIn(books, {b \in all :
                \A word \in searchWords(searchLower) :
                    includes(toLowerCase(b.title), word)})
    IN IF byId # Absent THEN byId
       ELSE IF exactMatch # Absent THEN exactMatch
       ELSE IF partialMatch # Absent THEN partialMatch
       ELSE wordMatch

FindBook ==
    /\ callArgs.op = "findBook"
    /\ callResult = NoCall
    /\ callResult' = [op |-> "findBook", book |-> findBook(callArgs.books, callArgs.query)]
    /\ UNCHANGED callArgs
    /\ UNCHANGED nonCallVars

\* C14: findBook returns a book of the earliest of the four stages (exact id,
\* exact case-insensitive title, query a substring of the title, every
\* significant word of the query in the title) that matches any book, and no
\* book when none matches at any stage.  A query matches as it is written or
\* with its '_' and '-' read as blanks.
C14_EarliestStageWins ==
    (callResult # NoCall /\ callArgs.op = "findBook") =>
        LET all == {callArgs.books[i] : i \in 1..Len(callArgs.books)}
            written == toLowerCase(callArgs.query)
            blanked == [i \in 1..Len(written) |->
                           IF written[i] \in {"_", "-"} THEN " " ELSE written[i]]
            stage(n) ==
                CASE n = 1 -> {b \in all : b.id = callArgs.query}
                  [] n = 2 -> {b \in all : toLowerCase(b.title) \in {written, blanked}}
                  [] n = 3 -> {b \in all : \E q \in {written, blanked} :
                                               includes(toLowerCase(b.title), q)}
                  [] n = 4 -> {b \in all : \E q \in {written, blanked} :
                                               \A w \in searchWords(q) :
                                                   includes(toLowerCase(b.title), w)}
            matching == {n \in 1..4 : stage(n) # {}}
        IN IF matching = {} THEN callResult.book = Absent
           ELSE callResult.book \in
                    stage(CHOOSE n \in matching : \A m \in matching : n <= m)

(***************************************************************************)
(* The tool handlers that take a reference to a book, a chapter, an        *)
(* article or a feed.  `book' says whether the book, file or feed of the   *)
(* reference resolves, `part' whether the chapter or article inside it     *)
(* does.  A handler either returns a result, descriptive of what was not   *)
(* found or carrying data, or throws.                                      *)
(***************************************************************************)
ToolArgs ==
    [op : {"tool"},
     tool : {"load_book", "get_epub_data", "get_pdf_data", "get_book_toc", "read_chapter",
             "get_book_index", "save_book_index", "get_article_content", "refresh_feed"},
     book : BOOLEAN, part : BOOLEAN]

returned(kind) == [op |-> "tool", threw |-> FALSE, kind |-> kind]

thrown(message) == [op |-> "tool", threw |-> TRUE, kind |-> message]

\* storage.hashBook reads the file of the path before anything else
loadBookTool(book) ==
    IF ~book THEN thrown("ENOENT") ELSE returned("data")

get_epub_data(book) ==
    IF ~book THEN thrown("Book not found") ELSE returned("data")

get_pdf_data(book) ==
    IF ~book THEN thrown("Book not found") ELSE returned("data")

getBookToc(book) ==
    IF ~book THEN returned("Book not found") ELSE returned("data")

readChapterTool(book, part) ==
    IF ~book THEN returned("Book not found")
    ELSE IF ~part THEN returned("Chapter not found")
    ELSE returned("data")

getBookIndex(book, part) ==
    IF ~book THEN returned("Book not found")
    ELSE IF ~part THEN returned("No index found")
    ELSE returned("data")

saveBookIndex(book) ==
    IF ~book THEN returned("Book not found") ELSE returned("data")

getArticleContentTool(part) ==
    IF ~part THEN returned("Article not found") ELSE returned("data")

\* refreshFeed throws for a feed that is not stored; the tool catches it
refreshFeedTool(book) ==
    LET refreshed == IF ~book THEN thrown("Feed not found") ELSE returned("data")
    IN IF refreshed.threw THEN returned("Failed to refresh") ELSE refreshed

CallTool ==
    /\ callArgs.op = "tool"
    /\ callResult = NoCall
    /\ callResult' =
         CASE callArgs.tool = "load_book" -> loadBookTool(callArgs.book)
           [] callArgs.tool = "get_epub_data" -> get_epub_data(callArgs.book)
           [] callArgs.tool = "get_pdf_data" -> get_pdf_data(callArgs.book)
           [] callArgs.tool = "get_book_toc" -> getBookToc(callArgs.book)
           [] callArgs.tool = "read_chapter" -> readChapterTool(callArgs.book, callArgs.part)
           [] callArgs.tool = "get_book_index" -> getBookIndex(callArgs.book, callArgs.part)
           [] callArgs.tool = "save_book_index" -> saveBookIndex(callArgs.book)
           [] callArgs.tool = "get_article_content" -> getArticleContentTool(callArgs.part)
           [] callArgs.tool = "refresh_feed" -> refreshFeedTool(callArgs.book)
    /\ UNCHANGED callArgs
    /\ UNCHANGED nonCallVars

\* the references each tool takes: a book, file or feed, and a part inside it
Unresolved ==
    \/ /\ callArgs.op = "tool"
       /\ \/ /\ callArgs.tool \notin {"get_article_content"}
             /\ ~callArgs.book
          \/ /\ callArgs.tool \in {"read_chapter", "get_article_content"}
             /\ ~callArgs.part
    \/ /\ callArgs.op = "readPdfPage"
       /\ \/ callArgs.book = None
          \/ callArgs.pageNumber > callArgs.numPages

\* C15: a tool operation whose book, chapter, page or article reference does
\* not resolve returns a descriptive result and does not throw.
C15_NotFoundNeverThrows ==
    (callResult # NoCall /\ Unresolved) =>
        /\ ~callResult.threw
        /\ callResult.kind \notin {"data", "pages"}

(***************************************************************************)
(* The semantic index of a book (storage/index.ts): one row of table       *)
(* semantic_index per book, written by saveSemanticIndex and removed by    *)
(* deleteSemanticIndex.                                                    *)
(***************************************************************************)
MaxSemCalls == 4

SemBooks == {"b1", "b2"}

getSemanticIndex(rows, bookId) ==
    IF \E r \in rows : r.bookId = bookId
    THEN CHOOSE r \in rows : r.bookId = bookId
    ELSE Absent

\* a variant that writes a new row in place of the existing one
saveSemanticIndex_replace(rows, bookId, indexData, now) ==
    {r \in rows : r.bookId # bookId}
        \cup {[id |-> <<"uuid", now>>, bookId |-> bookId, indexData |-> indexData,
               createdAt |-> now, updatedAt |-> now]}

saveSemanticIndex(rows, bookId, indexData, now) ==
    LET existing == getSemanticIndex(rows, bookId)
    IN IF existing # Absent
       THEN {IF r.bookId = bookId
             THEN [r EXCEPT !.indexData = indexData, !.updatedAt = now]
             ELSE r : r \in rows}
       ELSE rows \cup {[id |-> <<"uuid", now>>, bookId |-> bookId,
                        indexData |-> indexData, createdAt |-> now, updatedAt |-> now]}

deleteSemanticIndex(rows, bookId) == {r \in rows : r.bookId # bookId}

SaveSemanticIndex(bookId, indexData) ==
    /\ semTick < MaxSemCalls
    /\ semTick' = semTick + 1
    /\ semantic_index' = saveSemanticIndex(semantic_index, bookId, indexData, semTick + 1)
    /\ semCall' = [op |-> "save", bookId |-> bookId, indexData |-> indexData]
    /\ UNCHANGED nonSemVars

DeleteSemanticIndex(bookId) ==
    /\ semTick < MaxSemCalls
    /\ semTick' = semTick + 1
    /\ semantic_index' = deleteSemanticIndex(semantic_index, bookId)
    /\ semCall' = [op |-> "delete", bookId |-> bookId]
    /\ UNCHANGED nonSemVars

InitSem ==
    /\ IdleSem
    /\ IdleIndex /\ IdleLibrary /\ IdleRss /\ IdleAnnotations /\ IdleRead /\ IdleEpub /\ IdleCalls /\ IdleCache /\ IdleRace /\ IdlePdf /\ IdleUi

NextSem ==
    \/ \E bookId \in SemBooks, indexData \in {"{}", "{themes}"} : SaveSemanticIndex(bookId, indexData)
    \/ \E bookId \in SemBooks : DeleteSemanticIndex(bookId)

SpecSem == InitSem /\ [][NextSem]_vars

OneRowPerBook ==
    \A r1, r2 \in semantic_index : r1.bookId = r2.bookId => r1 = r2

\* what a call leaves in the table: the saved data under the id and createdAt
\* the book's row had before, nothing after a delete, other books' rows as
\* they were
CallEffect ==
    LET before == getSemanticIndex(semantic_index, semCall'.bookId)
        after == getSemanticIndex(semantic_index', semCall'.bookId)
    IN /\ semCall'.op = "save" =>
            /\ after # Absent
            /\ after.indexData = semCall'.indexData
            /\ before # Absent => after.id = before.id /\ after.createdAt = before.createdAt
       /\ semCall'.op = "delete" => after = Absent
       /\ \A b \in SemBooks \ {semCall'.bookId} :
              getSemanticIndex(semantic_index', b) = getSemanticIndex(semantic_index, b)

\* C16: after any sequence of saveSemanticIndex and deleteSemanticIndex calls
\* there is at most one row per book, getSemanticIndex returns the indexData
\* of the book's most recent save (nothing after a delete), and an
\* overwriting save keeps the row's id and createdAt.
C16_SemanticIndexUpsert == []OneRowPerBook /\ [][CallEffect]_vars

\* a row saved, then overwritten with other data at a later time
C16_Witness ==
    /\ semCall # NoCall /\ semCall.op = "save"
    /\ \E r \in semantic_index :
          /\ r.bookId = semCall.bookId
          /\ r.indexData = semCall.indexData
          /\ r.updatedAt > r.createdAt
          /\ r.updatedAt = semTick

(***************************************************************************)
(* Score normalization of searchBookContent.  The rows are what the query  *)
(* returns, ordered by bm25_score, which FTS5 makes negative; a raw score  *)
(* is counted in units of 1/ScoreUnit and a normalized score is the        *)
(* fraction <<numerator, denominator>>.                                    *)
(***************************************************************************)
ScoreUnit == 4

MaxRawScore == 6

MaxRows == 3

SearchArgs ==
    {[op |-> "search", rows |-> rows] :
        rows \in {r \in SeqUpTo((-MaxRawScore)..(-1), MaxRows) :
                      \A i \in 1..(Len(r) - 1) : r[i] <= r[i + 1]}}

abs(n) == IF n < 0 THEN -n ELSE n

searchBookContent(rows) ==
    LET absScores == [i \in 1..Len(rows) |-> abs(rows[i])]
        Max(S) == CHOOSE m \in S : \A n \in S : n <= m
        maxAbsScore == Max({absScores[i] : i \in 1..Len(rows)} \cup {ScoreUnit})
    IN [i \in 1..Len(rows) |-> [score |-> <<absScores[i], maxAbsScore>>]]

SearchBookContent ==
    /\ callArgs.op = "search"
    /\ callResult = NoCall
    /\ callResult' = [op |-> "search", results |-> searchBookContent(callArgs.rows)]
    /\ UNCHANGED callArgs
    /\ UNCHANGED nonCallVars

\* C17: in a non-empty result set each score is the absolute raw score
\* divided by the largest absolute raw score of the set, so every score is
\* in [0,1], the first result has score 1 and the scores do not increase.
C17_ScoreNormalized ==
    (callResult # NoCall /\ callArgs.op = "search" /\ Len(callArgs.rows) > 0) =>
        LET rows == callArgs.rows
            results == callResult.results
            largest == CHOOSE m \in {abs(rows[i]) : i \in 1..Len(rows)} :
                           \A i \in 1..Len(rows) : abs(rows[i]) <= m
        IN /\ Len(results) = Len(rows)
           /\ \A i \in 1..Len(results) :
                  LET score == results[i].score
                  IN /\ score[1] * largest = abs(rows[i]) * score[2]
                     /\ 0 <= score[1] /\ score[1] <= score[2]
           /\ results[1].score[1] = results[1].score[2]
           /\ \A i \in 1..(Len(results) - 1) :
                  results[i].score[1] * results[i + 1].score[2]
                      >= results[i + 1].score[1] * results[i].score[2]

(***************************************************************************)
(* The document caches (epubCache of epub-engine.ts, pdfCache of           *)
(* pdf-engine.ts) and the timers that sweep them.  Time is counted in      *)
(* minutes; the timer callback runs when its interval has elapsed.         *)
(***************************************************************************)
CACHE_TTL == 10

SweepInterval == 5

MaxTime == 32

CachePaths == {"a.epub", "b.pdf"}

\* a variant that also removes an entry whose age is exactly the TTL
cleanCache_inclusive(cache, now) ==
    [p \in DOMAIN cache |->
        IF cache[p] # NoNumber /\ now - cache[p][1] >= CACHE_TTL THEN NoNumber ELSE cache[p]]

cleanCache(cache, now) ==
    [p \in DOMAIN cache |->
        IF cache[p] # NoNumber /\ now - cache[p][1] > CACHE_TTL THEN NoNumber ELSE cache[p]]

SweepDue == cacheNow > 0 /\ cacheNow % SweepInterval = 0 /\ lastSweep # cacheNow

\* the setInterval callback
SweepTimer ==
    /\ SweepDue
    /\ docCache' = cleanCache(docCache, cacheNow)
    /\ lastSweep' = cacheNow
    /\ UNCHANGED <<cacheNow, bookCache, bookReturned>>
    /\ UNCHANGED nonCacheVars

\* openEpub / openPdf: a cached entry is touched, a missing one is loaded and
\* cached, both with lastAccess now
OpenDocument(path) ==
    /\ docCache' = [docCache EXCEPT ![path] = <<cacheNow>>]
    /\ UNCHANGED <<cacheNow, lastSweep, bookCache, bookReturned>>
    /\ UNCHANGED nonCacheVars

AdvanceTime ==
    /\ cacheNow < MaxTime
    /\ ~SweepDue
    /\ cacheNow' = cacheNow + 1
    /\ UNCHANGED <<docCache, lastSweep, bookCache, bookReturned>>
    /\ UNCHANGED nonCacheVars

InitCache ==
    /\ IdleCache
    /\ IdleIndex /\ IdleLibrary /\ IdleRss /\ IdleAnnotations /\ IdleRead /\ IdleEpub /\ IdleCalls /\ IdleSem /\ IdleRace /\ IdlePdf /\ IdleUi

NextCache ==
    \/ SweepTimer
    \/ \E path \in CachePaths : OpenDocument(path)
    \/ AdvanceTime

SpecCache == InitCache /\ [][NextCache]_vars

Cached(cache, p) == cache[p] # NoNumber

Age(p) == cacheNow - docCache[p][1]

\* C19: a sweep removes exactly the entries last accessed more than 10
\* minutes ago; no step removes an entry accessed within the last 10 minutes;
\* a cache hit sets the entry's last access to now; and an entry that is no
\* longer accessed is gone at the latest 5 minutes after its 10 minutes ran
\* out.
C19_TtlEviction ==
    /\ [][SweepTimer =>
             \A p \in CachePaths :
                 Cached(docCache', p) <=> (Cached(docCache, p) /\ ~(Age(p) > 10))]_vars
    /\ [][\A p \in CachePaths :
             (Cached(docCache, p) /\ Age(p) <= 10) => Cached(docCache', p)]_vars
    /\ [][\A p \in CachePaths :
             (Cached(docCache, p) /\ OpenDocument(p)) => docCache'[p] = <<cacheNow>>]_vars
    /\ [](\A p \in CachePaths :
             Cached(docCache, p) =>
                 /\ Age(p) <= 10 + 5
                 /\ Age(p) = 10 + 5 => SweepDue)

\* a sweep is due on an entry that an earlier sweep kept at the age of exactly
\* 10 minutes and that is 15 minutes old now, and on one 10 minutes old
C19_Witness ==
    /\ SweepDue /\ lastSweep = cacheNow - 5
    /\ Cached(docCache, "a.epub") /\ Age("a.epub") = 15
    /\ Cached(docCache, "b.pdf") /\ Age("b.pdf") = 10

(***************************************************************************)
(* Concurrent calls of openEpub, or of openPdf, on one file path.  A call  *)
(* runs until its next await; openEpub awaits EPub.createAsync, openPdf    *)
(* awaits getDocument, getMetadata and extractOutline.  What follows the   *)
(* last await, up to the cache being set, runs in one piece.               *)
(***************************************************************************)
MaxCallers == 2

\* openPdf's entry for the document: its metadata and outline
openPdf(file) ==
    [metadata |-> [title |-> IF file.Title = None THEN "basename" ELSE file.Title,
                   author |-> IF file.Author = None THEN "Unknown Author" ELSE file.Author,
                   pageCount |-> file.numPages],
     toc |-> file.outline]

\* the entry a call builds for the file at the path
openDocument(file) ==
    IF "flow" \in DOMAIN file THEN openEpub(file) ELSE openPdf(file)

\* the cache lookup at the start of a call
StartOpen(p) ==
    /\ racePc[p] = "start"
    /\ IF raceCache # Absent
       THEN /\ racePc' = [racePc EXCEPT ![p] = "returned"]
            /\ raceResult' = [raceResult EXCEPT ![p] = [hit |-> TRUE, entry |-> raceCache]]
       ELSE /\ racePc' = [racePc EXCEPT ![p] = "await1"]
            /\ UNCHANGED raceResult
    /\ UNCHANGED <<raceFile, raceCache>>
    /\ UNCHANGED nonRaceVars

\* a variant whose entry adds to the entry another call has cached
ResumeOpen_shared(p) ==
    /\ racePc[p] = "await1"
    /\ LET entry == openDocument(raceFile)
           merged == IF raceCache = Absent THEN entry
                     ELSE IF "pages" \in DOMAIN entry
                     THEN [entry EXCEPT !.pages = raceCache.pages \o entry.pages]
                     ELSE [entry EXCEPT !.toc = raceCache.toc \o entry.toc]
       IN /\ raceCache' = merged
          /\ raceResult' = [raceResult EXCEPT ![p] = [hit |-> FALSE, entry |-> merged]]
    /\ racePc' = [racePc EXCEPT ![p] = "returned"]
    /\ UNCHANGED raceFile
    /\ UNCHANGED nonRaceVars

\* a call resumes after an await: to the next await, or to the end, where it
\* sets the cache entry of the path and returns it
ResumeOpen(p) ==
    /\ racePc[p] \in {"await1", "await2", "await3"}
    /\ IF racePc[p] = "await3" \/ (racePc[p] = "await1" /\ "flow" \in DOMAIN raceFile)
       THEN LET entry == openDocument(raceFile)
            IN /\ raceCache' = entry
               /\ raceResult' = [raceResult EXCEPT ![p] = [hit |-> FALSE, entry |-> entry]]
               /\ racePc' = [racePc EXCEPT ![p] = "returned"]
       ELSE /\ racePc' = [racePc EXCEPT ![p] = IF racePc[p] = "await1" THEN "await2"
                                                ELSE "await3"]
            /\ UNCHANGED <<raceCache, raceResult>>
    /\ UNCHANGED raceFile
    /\ UNCHANGED nonRaceVars

InitRace ==
    /\ raceFile \in {f \in EpubFiles : Len(f.toc) <= 1}
                    \cup [Title : {None, "T"}, Author : {None, "A"}, numPages : 1..2,
                          outline : {<<>>, <<[title |-> "Intro", pageNumber |-> 1]>>}]
    /\ raceCache = Absent
    /\ racePc = [p \in 1..MaxCallers |-> "start"]
    /\ raceResult = [p \in 1..MaxCallers |-> Absent]
    /\ IdleIndex /\ IdleLibrary /\ IdleRss /\ IdleAnnotations /\ IdleRead /\ IdleEpub /\ IdleCalls /\ IdleSem /\ IdleCache /\ IdlePdf /\ IdleUi

NextRace ==
    \/ \E p \in 1..MaxCallers : StartOpen(p)
    \/ \E p \in 1..MaxCallers : ResumeOpen(p)

SpecRace == InitRace /\ [][NextRace]_vars

MaxMarkup == 6

stripHtml(html) ==
    LET blockTags == {"<p>", "</p>", "<br>"}
        tags == blockTags \cup {"<b>", "</b>"}
        whiteSpace == {" ", "\n"}
        \* <\/?(p|div|br|h[1-6]|li|tr)[^>]*> becomes a newline
        blocks == [i \in 1..Len(html) |-> IF html[i] \in blockTags THEN "\n" ELSE html[i]]
        \* the remaining tags go
        text == SelectSeq(blocks, LAMBDA c : c \notin tags)
        \* replace(/\s+/g, ' ')
        spaced == [i \in 1..Len(text) |-> IF text[i] \in whiteSpace THEN " " ELSE text[i]]
        oneSpace == {i \in 1..Len(spaced) :
                        ~(spaced[i] = " " /\ i > 1 /\ spaced[i - 1] = " ")}
        RECURSIVE keep(_, _)
        keep(s, i) == IF i > Len(s) THEN <<>>
                      ELSE IF i \in oneSpace THEN <<s[i]>> \o keep(s, i + 1)
                      ELSE keep(s, i + 1)
        normalized == keep(spaced, 1)
        \* replace(/\n\s+/g, '\n') and replace(/\n+/g, '\n') find no newline
        \* to act on: none is left in the text
        RECURSIVE trimStart(_)
        trimStart(s) == IF s # <<>> /\ Head(s) \in whiteSpace THEN trimStart(Tail(s)) ELSE s
        RECURSIVE trimEnd(_)
        trimEnd(s) == IF s # <<>> /\ s[Len(s)] \in whiteSpace
                      THEN trimEnd(SubSeq(s, 1, Len(s) - 1)) ELSE s
    IN trimEnd(trimStart(normalized))

(***************************************************************************)
(* extractBookText and extractPdfText over the units of a document (the    *)
(* pages of openEpub, the pages of a PDF).  A unit is marked "fail" when   *)
(* reading it throws, "blank" when its text is blank, and is else its      *)
(* text, held as the part lengths deduplicateChapterContent works on.      *)
(***************************************************************************)
MaxUnits == 4

\* a variant that gives up at the first unit that fails
extractBookText_abort(units) ==
    LET failing == {i \in 1..Len(units) : units[i] = [unit |-> "fail"]}
        last == IF failing = {} THEN Len(units)
                ELSE (CHOOSE i \in failing : \A j \in failing : i <= j) - 1
        RECURSIVE rawChapters(_)
        rawChapters(i) ==
            IF i > last THEN <<>>
            ELSE IF units[i] = [unit |-> "blank"] THEN rawChapters(i + 1)
            ELSE <<[units[i] EXCEPT !.index = i - 1]>> \o rawChapters(i + 1)
    IN [k \in 1..Len(rawChapters(1)) |->
           [index |-> rawChapters(1)[k].index,
            content |-> deduplicateChapterContent(rawChapters(1))[k]]]

extractBookText(units) ==
    LET RECURSIVE rawChapters(_)
        rawChapters(i) ==
            IF i > Len(units) THEN <<>>
            ELSE IF units[i] \in {[unit |-> "fail"], [unit |-> "blank"]} THEN rawChapters(i + 1)
            ELSE <<[units[i] EXCEPT !.index = i - 1]>> \o rawChapters(i + 1)
        chapters == deduplicateChapterContent(rawChapters(1))
    IN [k \in 1..Len(chapters) |->
           [index |-> rawChapters(1)[k].index, content |-> chapters[k]]]

extractPdfText(units) ==
    LET RECURSIVE chapters(_)
        chapters(pageNum) ==
            IF pageNum > Len(units) THEN <<>>
            ELSE IF units[pageNum] \in {[unit |-> "fail"], [unit |-> "blank"]} THEN chapters(pageNum + 1)
            ELSE <<[index |-> pageNum - 1,
                    content |-> [from |-> 0, to |-> contentLength(units[pageNum])]]>>
                     \o chapters(pageNum + 1)
    IN chapters(1)

\* getBookToc's hasSemanticIndex for a bookId that findBook resolves (through
\* getExtractedBook): what getSemanticIndex finds under the bookId
\* argument.
hasSemanticIndex(books, bookId, rows) ==
    IF findBook(books, bookId) = Absent THEN Absent
    ELSE [bookId |-> findBook(books, bookId).id,
          hasSemanticIndex |-> getSemanticIndex(rows, bookId) # Absent]

\* The GET /epub handler.  A path is the sequence of its segments below the
\* root; the books directory is /b, and /bx is a directory beside it whose
\* name begins with the name of the books directory.  The answer is the HTTP
\* status; 200 goes with the file.
MaxSegments == 3

getEpub(given, segments, exists) ==
    LET RECURSIVE normalize(_, _)
        \* path.normalize: '..' takes the segment before it, and nothing at the root
        normalize(done, rest) ==
            IF rest = <<>> THEN done
            ELSE IF Head(rest) = ".."
            THEN normalize(IF done = <<>> THEN <<>> ELSE SubSeq(done, 1, Len(done) - 1),
                           Tail(rest))
            ELSE normalize(Append(done, Head(rest)), Tail(rest))
        normalizedPath == normalize(<<>>, segments)
        \* normalizedPath.startsWith('/b'), on the characters of the path
        startsWithBookPath == normalizedPath # <<>> /\ normalizedPath[1] \in {"b", "bx"}
    IN IF ~given THEN [status |-> 400, normalizedPath |-> <<>>]
       ELSE IF ~startsWithBookPath THEN [status |-> 403, normalizedPath |-> normalizedPath]
       ELSE IF ~exists THEN [status |-> 404, normalizedPath |-> normalizedPath]
       ELSE [status |-> 200, normalizedPath |-> normalizedPath]

\* a call of one of the functions of text extraction and of request handling
CallFunction ==
    /\ callArgs.op \in {"stripHtml", "extractBookText", "extractPdfText", "getBookToc",
                        "getEpub"}
    /\ callResult = NoCall
    /\ callResult' =
         CASE callArgs.op = "stripHtml" ->
                  [op |-> "stripHtml", text |-> stripHtml(callArgs.html)]
           [] callArgs.op = "extractBookText" ->
                  [op |-> "extractBookText", threw |-> FALSE,
                   chapters |-> extractBookText(callArgs.units)]
           [] callArgs.op = "extractPdfText" ->
                  [op |-> "extractPdfText", threw |-> FALSE,
                   chapters |-> extractPdfText(callArgs.units)]
           [] callArgs.op = "getEpub" ->
                  [op |-> "getEpub",
                   response |-> getEpub(callArgs.given, callArgs.path, callArgs.exists)]
           [] callArgs.op = "getBookToc" ->
                  [op |-> "getBookToc",
                   structuredContent |-> hasSemanticIndex(callArgs.books, callArgs.query,
                                                          callArgs.rows)]
    /\ UNCHANGED callArgs
    /\ UNCHANGED nonCallVars

\* C23: the plain text stripHtml returns has a newline between the text of
\* two non-empty block-level elements of the markup.
C23_ParagraphsSeparated ==
    (callResult # NoCall /\ callArgs.op = "stripHtml") =>
        LET html == callArgs.html
            text == callResult.text
            letters(s) == {i \in 1..Len(s) : s[i] = "a"}
        IN (\E i, j \in letters(html) :
               1 < i /\ i < j /\ html[i - 1] = "<p>" /\ html[j - 1] = "<p>") =>
             \E m, n \in letters(text) :
                 m < n /\ \E k \in (m + 1)..(n - 1) : text[k] = "\n"

\* C21: whichever units fail, extractBookText and extractPdfText do not throw
\* and return exactly the units read with non-blank text, each under its
\* 0-based position in the document, in increasing order; none when all fail.
C21_PartialExtraction ==
    (callResult # NoCall /\ callArgs.op \in {"extractBookText", "extractPdfText"}) =>
        LET units == callArgs.units
            chapters == callResult.chapters
            read == {i \in 1..Len(units) : units[i] \notin {[unit |-> "fail"], [unit |-> "blank"]}}
        IN /\ ~callResult.threw
           /\ {chapters[k].index : k \in 1..Len(chapters)} = {i - 1 : i \in read}
           /\ Len(chapters) = Cardinality(read)
           /\ \A k \in 1..(Len(chapters) - 1) : chapters[k].index < chapters[k + 1].index

\* an EPUB whose second chapter failed and whose third is blank, of four
C21_Witness ==
    /\ callResult # NoCall /\ callArgs.op = "extractBookText"
    /\ Len(callArgs.units) = 4
    /\ callArgs.units[2] = [unit |-> "fail"] /\ callArgs.units[3] = [unit |-> "blank"]
    /\ Len(callResult.chapters) = 2
    /\ callResult.chapters[2].index = 3

\* C24: for a query that resolves to a book, by id or by title, get_book_toc
\* says hasSemanticIndex exactly when a semantic index is stored for that
\* book's id.
C24_TocReportsIndex ==
    (/\ callResult # NoCall /\ callArgs.op = "getBookToc"
     /\ callResult.structuredContent # Absent) =>
        (callResult.structuredContent.hasSemanticIndex <=>
            \E r \in callArgs.rows : r.bookId = callResult.structuredContent.bookId)

\* C25: the /epub endpoint sends a file only if the normalized path is inside
\* the tree of the books directory, and answers every other path with 403.
C25_ServesOnlyBooks ==
    (callResult # NoCall /\ callArgs.op = "getEpub" /\ callArgs.given) =>
        LET normalizedPath == callResult.response.normalizedPath
            inside == normalizedPath # <<>> /\ normalizedPath[1] = "b"
        IN /\ callResult.response.status = 200 => inside
           /\ ~inside => callResult.response.status = 403

(***************************************************************************)
(* The cache of extracted book text (tools/indexing.ts).  It shares the    *)
(* clock of the document caches; the sweep timer of the engines runs       *)
(* beside it and does not know this map.                                   *)
(***************************************************************************)
CACHE_TTL_MS == 10

\* getExtractedBook: a cached extraction younger than the TTL is returned as
\* it is; otherwise the book is extracted again and stored with extractedAt now
GetExtractedBook(bookId) ==
    LET cached == bookCache[bookId]
    IN /\ IF cached # NoNumber /\ cacheNow - cached[1] < CACHE_TTL_MS
            THEN /\ bookReturned' = [bookId |-> bookId, at |-> cacheNow, extractedAt |-> cached[1]]
                 /\ UNCHANGED bookCache
            ELSE /\ bookCache' = [bookCache EXCEPT ![bookId] = <<cacheNow>>]
                 /\ bookReturned' = [bookId |-> bookId, at |-> cacheNow, extractedAt |-> cacheNow]
       /\ UNCHANGED <<docCache, cacheNow, lastSweep>>
       /\ UNCHANGED nonCacheVars

SpecBookCache ==
    /\ InitCache
    /\ [][\/ \E bookId \in DOMAIN bookCache : GetExtractedBook(bookId)
          \/ SweepTimer
          \/ AdvanceTime]_vars

\* C27: the extracted-text cache follows the TTL pattern of the document
\* caches: what a call returns is never older than the 10-minute TTL, the call
\* leaves the entry with the time of the call as its timestamp, and once a
\* sweep has run no entry older than the TTL is left in the cache.
C27_ExtractedTextTtl ==
    /\ bookReturned # Absent =>
          /\ bookReturned.at - bookReturned.extractedAt <= CACHE_TTL_MS
          /\ bookCache[bookReturned.bookId] = <<bookReturned.at>>
    /\ \A b \in DOMAIN bookCache :
          (lastSweep = cacheNow /\ bookCache[b] # NoNumber) =>
              cacheNow - bookCache[b][1] <= CACHE_TTL_MS

(***************************************************************************)
(* The document handles of the PDF engine: extractPdfText calls on one     *)
(* path, each running from await to await, beside the sweep timer.         *)
(***************************************************************************)
MaxPdfTime == 16

PdfSweepDue == pdfNow > 0 /\ pdfNow % SweepInterval = 0 /\ pdfLastSweep # pdfNow

\* cleanCache of pdf-engine.ts, run by setInterval: an entry older than the
\* TTL has its document destroyed and is deleted
PdfSweep ==
    /\ PdfSweepDue
    /\ pdfLastSweep' = pdfNow
    /\ IF pdfCache # Absent /\ pdfNow - pdfCache.lastAccess > CACHE_TTL
       THEN /\ pdfDocuments' = [pdfDocuments EXCEPT ![pdfCache.document] = TRUE]
            /\ pdfCache' = Absent
       ELSE UNCHANGED <<pdfDocuments, pdfCache>>
    /\ UNCHANGED <<pdfPc, pdfNow>>
    /\ UNCHANGED nonPdfVars

PdfAdvanceTime ==
    /\ pdfNow < MaxPdfTime
    /\ ~PdfSweepDue
    /\ pdfNow' = pdfNow + 1
    /\ UNCHANGED <<pdfDocuments, pdfCache, pdfPc, pdfLastSweep>>
    /\ UNCHANGED nonPdfVars

\* extractPdfText, from one await to the next.  "start": openPdf looks the
\* path up; a hit touches the entry and the pages are read from its document.
\* "getDocument": the loading task resolves with a new document.  "opened":
\* after getMetadata and extractOutline the entry is set in the cache and
\* returned.  "reading": the pages are read from the document; then the call
\* returns.
ExtractPdfText(c) ==
    /\ CASE pdfPc[c].at = "start" ->
              IF pdfCache # Absent
              THEN /\ pdfCache' = [pdfCache EXCEPT !.lastAccess = pdfNow]
                   /\ pdfPc' = [pdfPc EXCEPT ![c] = [at |-> "reading", document |-> pdfCache.document]]
                   /\ UNCHANGED pdfDocuments
              ELSE /\ pdfPc' = [pdfPc EXCEPT ![c] = [at |-> "getDocument", document |-> 0]]
                   /\ UNCHANGED <<pdfCache, pdfDocuments>>
         [] pdfPc[c].at = "getDocument" ->
              /\ pdfDocuments' = Append(pdfDocuments, FALSE)
              /\ pdfPc' = [pdfPc EXCEPT ![c] = [at |-> "opened", document |-> Len(pdfDocuments) + 1]]
              /\ UNCHANGED pdfCache
         [] pdfPc[c].at = "opened" ->
              /\ pdfCache' = [document |-> pdfPc[c].document, lastAccess |-> pdfNow]
              /\ pdfPc' = [pdfPc EXCEPT ![c] = [at |-> "reading", document |-> pdfPc[c].document]]
              /\ UNCHANGED pdfDocuments
         [] pdfPc[c].at = "reading" ->
              /\ pdfPc' = [pdfPc EXCEPT ![c] = [at |-> "returned", document |-> pdfPc[c].document]]
              /\ UNCHANGED <<pdfCache, pdfDocuments>>
         [] OTHER -> FALSE
    /\ UNCHANGED <<pdfNow, pdfLastSweep>>
    /\ UNCHANGED nonPdfVars

InitPdf ==
    /\ pdfDocuments = <<>> /\ pdfCache = Absent /\ pdfNow = 0 /\ pdfLastSweep = 0
    /\ pdfPc = [c \in 1..MaxCallers |-> [at |-> "start", document |-> 0]]
    /\ IdleIndex /\ IdleLibrary /\ IdleRss /\ IdleAnnotations /\ IdleRead /\ IdleEpub /\ IdleCalls /\ IdleSem /\ IdleCache /\ IdleRace /\ IdleUi

SpecPdf ==
    /\ InitPdf
    /\ [][\/ \E c \in 1..MaxCallers : ExtractPdfText(c)
          \/ PdfSweep
          \/ PdfAdvanceTime]_vars

\* C28: no document handle is left open for good, and none is destroyed under
\* a reader: a document that is not destroyed is the one the cache holds or
\* one a call that has not returned holds, so that a later sweep or that call
\* can still reach it; and the document a call is reading pages from is not
\* destroyed.
C28_HandlesReclaimed ==
    /\ \A d \in DOMAIN pdfDocuments :
          ~pdfDocuments[d] =>
              \/ pdfCache # Absent /\ pdfCache.document = d
              \/ \E c \in DOMAIN pdfPc : pdfPc[c].at = "opened" /\ pdfPc[c].document = d
    /\ \A c \in DOMAIN pdfPc :
          pdfPc[c].at = "reading" => ~pdfDocuments[pdfPc[c].document]

(***************************************************************************)
(* The reader UI's highlight list beside the server's storage.  A handler  *)
(* updates the list at once and awaits callServerTool; the call is served  *)
(* and its result handled when the await resumes.                          *)
(***************************************************************************)
MaxHighlights == 3

\* handleAddHighlight up to its await: the highlight enters the list under a
\* temp id and add_highlight is called
HandleAddHighlight ==
    /\ uiClock <= MaxHighlights
    /\ LET tempId == <<"temp-", uiClock>>
       IN /\ uiHighlights' = uiHighlights \cup {tempId}
          /\ uiCalls' = uiCalls \cup {[name |-> "add_highlight", id |-> tempId]}
    /\ uiClock' = uiClock + 1
    /\ UNCHANGED serverHighlights
    /\ UNCHANGED nonUiVars

\* handleDeleteHighlight up to its await: the highlight leaves the list, and
\* delete_annotation is called unless the id is a temp id
HandleDeleteHighlight(id) ==
    /\ id \in uiHighlights
    /\ uiHighlights' = uiHighlights \ {id}
    /\ uiCalls' = IF id[1] # "temp-"
                  THEN uiCalls \cup {[name |-> "delete_annotation", id |-> id]}
                  ELSE uiCalls
    /\ UNCHANGED <<serverHighlights, uiClock>>
    /\ UNCHANGED nonUiVars

\* a call is served and its handler resumes.  add_highlight stores the
\* highlight under a new id, and the handler gives that id to the list's
\* entry that has the temp id; delete_annotation removes the highlight.  A
\* call that fails is logged and changes nothing.
CallServerTool(call, ok) ==
    /\ call \in uiCalls
    /\ uiCalls' = uiCalls \ {call}
    /\ IF ~ok THEN UNCHANGED <<uiHighlights, serverHighlights>>
       ELSE IF call.name = "add_highlight"
       THEN LET highlightAdded == <<"id-", call.id[2]>>
            IN /\ serverHighlights' = serverHighlights \cup {highlightAdded}
               /\ uiHighlights' = {IF h = call.id THEN highlightAdded ELSE h : h \in uiHighlights}
       ELSE /\ serverHighlights' = serverHighlights \ {call.id}
            /\ UNCHANGED uiHighlights
    /\ UNCHANGED uiClock
    /\ UNCHANGED nonUiVars

InitUi ==
    /\ IdleUi
    /\ IdleIndex /\ IdleLibrary /\ IdleRss /\ IdleAnnotations /\ IdleRead /\ IdleEpub /\ IdleCalls /\ IdleSem /\ IdleCache /\ IdleRace /\ IdlePdf

SpecUi ==
    /\ InitUi
    /\ [][\/ HandleAddHighlight
          \/ \E id \in uiHighlights : HandleDeleteHighlight(id)
          \/ \E call \in uiCalls, ok \in BOOLEAN : CallServerTool(call, ok)]_vars

\* C29: once no tool call is in flight, the highlights in server storage are
\* the highlights of the UI's list.
C29_UiReconciles ==
    uiCalls = {} => uiHighlights = serverHighlights

(***************************************************************************)
(* The calls of the functions that keep no state: each behaviour is one    *)
(* call with arguments of its domain.                                      *)
(***************************************************************************)
InitCalls ==
    /\ callArgs \in {[op |-> "dedup", chapters |-> c] : c \in DedupInputs}
                     \cup PdfPageArgs \cup FindBookArgs \cup ToolArgs \cup SearchArgs
                     \cup {[op |-> "stripHtml", html |-> h] :
                              h \in SeqUpTo({"<p>", "</p>", "<b>", "a", " "}, MaxMarkup)}
                     \cup {[op |-> o, units |-> u] :
                              o \in {"extractBookText", "extractPdfText"},
                              u \in SeqUpTo({[unit |-> "fail"], [unit |-> "blank"],
                                             [index |-> 0, lead |-> 0, preamble |-> 210,
                                              unique |-> 730, trailer |-> 0]},
                                            MaxUnits)}
                     \cup {[op |-> "getBookToc", books |-> a.books, query |-> a.query,
                             rows |-> rows] :
                              a \in FindBookArgs,
                              rows \in SUBSET {[bookId |-> <<"1">>], [bookId |-> <<"2">>]}}
                     \cup {[op |-> "getEpub", given |-> g, path |-> p, exists |-> x] :
                              g \in BOOLEAN, x \in BOOLEAN,
                              p \in SeqUpTo({"b", "bx", "..", "etc", "a.epub"},
                                            MaxSegments)}
    /\ callResult = NoCall
    /\ IdleIndex /\ IdleLibrary /\ IdleRss /\ IdleAnnotations /\ IdleRead /\ IdleEpub /\ IdleSem /\ IdleCache /\ IdleRace /\ IdlePdf /\ IdleUi

NextCalls ==
    \/ Deduplicate
    \/ ReadPdfPage
    \/ FindBook
    \/ CallTool
    \/ SearchBookContent
    \/ CallFunction

SpecCalls == InitCalls /\ [][NextCalls]_vars

=============================================================================
